---------------------------- MODULE Spec2Model ----------------------------
(***************************************************************************)
(* box2dpp narrow-phase collision kernel: Distance (GJK), ShapeCast and    *)
(* TimeOfImpact, as state machines over the loops of the C++ code.         *)
(*                                                                         *)
(* Numbers.  The C++ code works on float.  Here a length is an integer     *)
(* number of grid steps, Metre of them making the length 1.0f, and         *)
(* BPP_LINEAR_SLOP (0.005f) is 8 steps, so that the tolerance              *)
(* linear_slop / 4 is two steps.  Sums, dot and cross products of lengths  *)
(* are exact.  A unitless quantity (a barycentric weight, a cosine or      *)
(* sine, a component of a unit vector) is a fixed-point integer with One   *)
(* standing for 1.0f, and a time fraction is one with TimeOne standing     *)
(* for 1.0f.  A product or quotient that leaves its grid is rounded to     *)
(* nearest, which plays the part of float rounding.                        *)
(* std::numeric_limits<float>::epsilon() is below the resolution of every  *)
(* grid, so "x < epsilon" for x >= 0 reads "x = 0".  The IEEE results of   *)
(* a division by zero are the values NaN, PosInf and NegInf below.         *)
(***************************************************************************)
EXTENDS Integers, Sequences, FiniteSets, TLC

\* ------------------------------------------------------------------ bounds
\* fixed-point representation of 1.0f
One == 1024
\* fixed-point representation of the time fraction 1.0f
TimeOne == 64
\* grid steps in the length 1.0f
Metre == 1600
\* number of Distance::compute calls made on one input in one behaviour
MaxCalls == 2

\* ------------------------------------------------------- program constants
BPP_LINEAR_SLOP == 8
BPP_MAX_POLYGON_VERTICES == 8
BPP_COLLISION_DISTANCE_MAX_ITERATIONS == 20
\* max_root_iterations of find_root_bracketed
max_root_iterations == 50
\* ShapeProxy::invalid_index, std::numeric_limits<std::uint8_t>::max()
invalid_index == 255
\* SimplexCache::Type / Simplex::Type
UNINITIALIZED == 0
POINT == 1
LINE_SEGMENT == 2
TRIANGLE == 3

\* ------------------------------------------------------------- float model
\* IEEE results of x / 0.0f, and what follows from them
NaN == 2000000001
PosInf == 2000000002
NegInf == 2000000003
IsSpecial(x) == x = NaN \/ x = PosInf \/ x = NegInf
\* the float comparison x < y
FLess(x, y) ==
    IF x = NaN \/ y = NaN THEN FALSE
    ELSE IF x = NegInf THEN y # NegInf
    ELSE IF y = PosInf THEN x # PosInf
    ELSE IF x = PosInf \/ y = NegInf THEN FALSE
    ELSE x < y

Abs(a) == IF a < 0 THEN -a ELSE a
Max(a, b) == IF a < b THEN b ELSE a

\* a local constant: the one element of the set S.  Local({Body : v \in {value}})
\* computes value once and is Body of it
Local(S) == CHOOSE result \in S : TRUE

\* a / b rounded to nearest (b > 0), ties away from zero
RoundDiv(a, b) ==
    IF a >= 0 THEN (2 * a + b) \div (2 * b)
              ELSE -((2 * (-a) + b) \div (2 * b))

\* float division a / b for any sign of b; the result of a division by zero
\* (inf or NaN in C++) is modelled by the caller
FDiv(a, b) == IF b > 0 THEN RoundDiv(a, b) ELSE RoundDiv(-a, -b)

RECURSIVE SqrtSearch(_, _, _)
SqrtSearch(n, lo, hi) ==
    IF lo >= hi THEN lo
    ELSE LET mid == (lo + hi + 1) \div 2
         IN  IF mid * mid <= n THEN SqrtSearch(n, mid, hi)
                               ELSE SqrtSearch(n, lo, mid - 1)

\* std::sqrt rounded to nearest integer
Sqrt(n) ==
    LET r == SqrtSearch(n, 0, 46340)
    IN  IF n - r * r > r THEN r + 1 ELSE r

\* ---------------------------------------------------------------- Vec2
Vec(x, y) == [x |-> x, y |-> y]
Vec2_zero == Vec(0, 0)

VNeg(v) == Vec(-v.x, -v.y)
VAdd(a, b) == Vec(a.x + b.x, a.y + b.y)
VSub(a, b) == Vec(a.x - b.x, a.y - b.y)
\* s * v for a fixed-point scalar s
VScale(s, v) == Vec(RoundDiv(s * v.x, One), RoundDiv(s * v.y, One))

Dot(a, b) == a.x * b.x + a.y * b.y
Cross(a, b) == a.x * b.y - a.y * b.x
\* Vec2::cross(float scalar)
CrossVS(v, s) == Vec(v.y * s, -v.x * s)

\* Vec2::length
Length(v) == Sqrt(Dot(v, v))

\* v.length_squared() < epsilon (or epsilon squared), without forming the
\* square of a large component
NearZero(v) == v.x = 0 /\ v.y = 0

\* Vec2::normalize: the unit vector as fixed-point components, zero for a
\* vector shorter than epsilon.  The vector is first brought to about 14
\* bits, as a float mantissa would be, so that the length keeps its
\* precision for short vectors and does not overflow for long ones.
Normalize(v) ==
    LET m == Max(Abs(v.x), Abs(v.y))
        Unit(sx, sy, len) == Vec(RoundDiv(sx * One, len), RoundDiv(sy * One, len))
        Scaled(sx, sy) == Unit(sx, sy, Sqrt(sx * sx + sy * sy))
        Rescale(up, down) == Scaled(RoundDiv(v.x * up, down), RoundDiv(v.y * up, down))
    IN  IF m = 0 THEN Vec2_zero
        ELSE IF m < 8192 THEN Rescale(16384 \div m, 1)
        ELSE Rescale(1, (m \div 16384) + 1)

multiply_add(a, s, b) == VAdd(a, VScale(s, b))
multiply_sub(a, s, b) == VSub(a, VScale(s, b))

\* ------------------------------------------------------------- Rotation
Rot(c, s) == [cos |-> c, sin |-> s]

\* Rotation::normalize
RotNormalize(q) ==
    LET Unit(n) == IF NearZero(n) THEN Rot(One, 0) ELSE Rot(n.x, n.y)
    IN  Unit(Normalize(Vec(q.cos, q.sin)))

RotInv(q) == Rot(q.cos, -q.sin)

\* Rotation::rotate
Rotate(q, v) ==
    Vec(RoundDiv(q.cos * v.x - q.sin * v.y, One),
        RoundDiv(q.cos * v.y + q.sin * v.x, One))

InvRotate(q, v) == Rotate(RotInv(q), v)

\* Rotation::inv_multiply: inv().multiply(other)
RotInvMultiply(q, other) ==
    LET i == RotInv(q)
    IN  Rot(RoundDiv(i.cos * other.cos - i.sin * other.sin, One),
            RoundDiv(i.sin * other.cos + i.cos * other.sin, One))

\* ------------------------------------------------------------ Transform
Xf(p, q) == [point |-> p, rotation |-> q]

\* Transform::transform
TransformPoint(xf, p) == VAdd(Rotate(xf.rotation, p), xf.point)

\* Transform::inv_transform
InvTransformPoint(xf, p) == InvRotate(xf.rotation, VSub(p, xf.point))

\* Transform::inv_multiply: other x this^-1
inv_multiply(this, other) ==
    LET r == RotInvMultiply(this.rotation, other.rotation)
        p == VSub(other.point, Rotate(r, this.point))
    IN  Xf(p, r)

\* fixed-point a / b for operands of any size: both are first reduced to
\* about 20 bits, which leaves a float quotient unchanged up to rounding.
\* b = 0 (inf or NaN in C++) gives 0.
FRatio(a, b) ==
    LET k == (Max(Abs(a), Abs(b)) \div 1048576) + 1
        ra == RoundDiv(a, k)
        rb == RoundDiv(b, k)
    IN  IF rb = 0 THEN 0 ELSE FDiv(ra * One, rb)

\* ----------------------------------------------------------- ShapeProxy
Proxy(pts, r) == [points |-> pts, count |-> Len(pts), radius |-> r]

\* points[i] of the zero-initialised std::array of a proxy
PointAt(proxy, i) == IF i < proxy.count THEN proxy.points[i + 1] ELSE Vec2_zero

RECURSIVE SupportScan(_, _, _, _, _)
SupportScan(proxy, direction, i, best_index, best_value) ==
    IF i >= proxy.count THEN best_index
    ELSE LET value == Dot(PointAt(proxy, i), direction)
         IN  IF value > best_value
             THEN SupportScan(proxy, direction, i + 1, i, value)
             ELSE SupportScan(proxy, direction, i + 1, best_index, best_value)

\* the last of the points of the greatest dot product with direction
FindSupportLast(proxy, direction) ==
    CHOOSE i \in 0..(proxy.count - 1) :
        \A j \in 0..(proxy.count - 1) :
            \/ Dot(PointAt(proxy, j), direction) < Dot(PointAt(proxy, i), direction)
            \/ (Dot(PointAt(proxy, j), direction) = Dot(PointAt(proxy, i), direction) /\ j <= i)

\* ShapeProxy::find_support
find_support(proxy, direction) ==
    IF NearZero(direction) THEN 0
    ELSE SupportScan(proxy, direction, 1, 0, Dot(PointAt(proxy, 0), direction))

\* -------------------------------------------------------------- Simplex
Vertex(wa, wb, wt, ia, ib) ==
    [w_a |-> wa, w_b |-> wb, w |-> VSub(wa, wb), weight |-> wt,
     index_a |-> ia, index_b |-> ib]

\* a value-initialised SimplexVertex
ZeroVertex ==
    [w_a |-> Vec2_zero, w_b |-> Vec2_zero, w |-> Vec2_zero, weight |-> 0,
     index_a |-> 0, index_b |-> 0]

\* SimplexCache::zero
SimplexCache_zero ==
    [type |-> UNINITIALIZED, index_a |-> <<0, 0, 0>>, index_b |-> <<0, 0, 0>>]

\* Simplex::create
Simplex_create(cache, proxy_a, proxy_b) ==
    IF cache.type = UNINITIALIZED
    THEN [vertices |-> <<Vertex(PointAt(proxy_a, 0), PointAt(proxy_b, 0), One, 0, 0),
                         ZeroVertex, ZeroVertex>>,
          type |-> POINT]
    ELSE [vertices |-> [i \in 1..3 |->
                          Vertex(PointAt(proxy_a, cache.index_a[i]),
                                 PointAt(proxy_b, cache.index_b[i]),
                                 -One, cache.index_a[i], cache.index_b[i])],
          type |-> cache.type]

\* Simplex::cache
Simplex_cache(simplex) ==
    [type |-> simplex.type,
     index_a |-> [i \in 1..3 |-> IF i <= simplex.type
                                 THEN simplex.vertices[i].index_a ELSE 0],
     index_b |-> [i \in 1..3 |-> IF i <= simplex.type
                                 THEN simplex.vertices[i].index_b ELSE 0]]

SetWeight(v, wt) == [v EXCEPT !.weight = wt]
Solved(vs, t, d) == [simplex |-> [vertices |-> vs, type |-> t], d |-> d]

\* Simplex::solve1
solve1(simplex) ==
    Solved(simplex.vertices, simplex.type, VNeg(simplex.vertices[1].w))

\* the search direction of an edge region: cross((wi + wj).cross(eij), eij)
EdgeDirection(wi, wj) ==
    LET e == VSub(wj, wi) IN CrossVS(e, -Cross(VAdd(wi, wj), e))

\* Simplex::solve2
solve2(simplex) ==
    LET v == simplex.vertices
        w1 == v[1].w
        w2 == v[2].w
        e12 == VSub(w2, w1)
        d12_2 == -Dot(w1, e12)
        d12_1 == Dot(w2, e12)
        denominator == d12_1 + d12_2
    IN  IF d12_2 <= 0
        THEN Solved(<<SetWeight(v[1], One), v[2], v[3]>>, POINT, VNeg(w1))
        ELSE IF d12_1 <= 0
        THEN Solved(<<SetWeight(v[2], One), v[2], v[3]>>, POINT, VNeg(w2))
        ELSE Solved(<<SetWeight(v[1], FRatio(d12_1, denominator)),
                      SetWeight(v[2], FRatio(d12_2, denominator)), v[3]>>,
                    LINE_SEGMENT, EdgeDirection(w1, w2))

\* Simplex::solve3
solve3(simplex) ==
    LET v == simplex.vertices
        w1 == v[1].w
        w2 == v[2].w
        w3 == v[3].w
        e12 == VSub(w2, w1)
        d12_1 == Dot(w2, e12)
        d12_2 == -Dot(w1, e12)
        e13 == VSub(w3, w1)
        d13_1 == Dot(w3, e13)
        d13_2 == -Dot(w1, e13)
        e23 == VSub(w3, w2)
        d23_1 == Dot(w3, e23)
        d23_2 == -Dot(w2, e23)
        n123 == Cross(e12, e13)
        d123_1 == n123 * Cross(w2, w3)
        d123_2 == n123 * Cross(w3, w1)
        d123_3 == n123 * Cross(w1, w2)
        d123 == d123_1 + d123_2 + d123_3
    IN  IF d12_2 <= 0 /\ d13_2 <= 0
        THEN Solved(<<SetWeight(v[1], One), v[2], v[3]>>, POINT, VNeg(w1))
        ELSE IF d12_1 > 0 /\ d12_2 > 0 /\ d123_3 <= 0
        THEN Solved(<<SetWeight(v[1], FRatio(d12_1, d12_1 + d12_2)),
                      SetWeight(v[2], FRatio(d12_2, d12_1 + d12_2)), v[3]>>,
                    LINE_SEGMENT, EdgeDirection(w1, w2))
        ELSE IF d13_1 > 0 /\ d13_2 > 0 /\ d123_2 <= 0
        THEN LET v3 == SetWeight(v[3], FRatio(d13_2, d13_1 + d13_2))
             IN  Solved(<<SetWeight(v[1], FRatio(d13_1, d13_1 + d13_2)), v3, v3>>,
                        LINE_SEGMENT, EdgeDirection(w1, w3))
        ELSE IF d12_1 <= 0 /\ d23_2 <= 0
        THEN Solved(<<SetWeight(v[2], One), SetWeight(v[2], One), v[3]>>,
                    POINT, VNeg(w2))
        ELSE IF d13_1 <= 0 /\ d23_1 <= 0
        THEN Solved(<<SetWeight(v[3], One), v[2], SetWeight(v[3], One)>>,
                    POINT, VNeg(w3))
        ELSE IF d23_1 > 0 /\ d23_2 > 0 /\ d123_1 <= 0
        THEN LET v3 == SetWeight(v[3], FRatio(d23_2, d23_1 + d23_2))
             IN  Solved(<<v3, SetWeight(v[2], FRatio(d23_1, d23_1 + d23_2)), v3>>,
                        LINE_SEGMENT, EdgeDirection(w2, w3))
        ELSE Solved(<<SetWeight(v[1], FRatio(d123_1, d123)),
                      SetWeight(v[2], FRatio(d123_2, d123)),
                      SetWeight(v[3], FRatio(d123_3, d123))>>,
                    TRIANGLE, Vec2_zero)

\* Simplex::solve
solve(simplex) ==
    CASE simplex.type = POINT -> solve1(simplex)
      [] simplex.type = LINE_SEGMENT -> solve2(simplex)
      [] simplex.type = TRIANGLE -> solve3(simplex)

\* Simplex::compute_closest_points
compute_closest_points(simplex) ==
    LET v1 == simplex.vertices[1]
        v2 == simplex.vertices[2]
        v3 == simplex.vertices[3]
    IN  CASE simplex.type = POINT -> <<v1.w_a, v1.w_b>>
          [] simplex.type = LINE_SEGMENT ->
                <<VAdd(VScale(v1.weight, v1.w_a), VScale(v2.weight, v2.w_a)),
                  VAdd(VScale(v1.weight, v1.w_b), VScale(v2.weight, v2.w_b))>>
          [] simplex.type = TRIANGLE ->
                <<VAdd(VAdd(VScale(v1.weight, v1.w_a), VScale(v2.weight, v2.w_a)),
                       VScale(v3.weight, v3.w_a)),
                  VAdd(VAdd(VScale(v1.weight, v1.w_b), VScale(v2.weight, v2.w_b)),
                       VScale(v3.weight, v3.w_b))>>

\* -------------------------------------------------------------- Distance
DInput(pa, pb, xa, xb, radii) ==
    [proxy_a |-> pa, proxy_b |-> pb, transform_a |-> xa, transform_b |-> xb,
     use_radii |-> radii]

\* Distance::compute, "Get proxy B in frame A": the relative transform
RelativeTransform(input) == inv_multiply(input.transform_a, input.transform_b)

\* Distance::compute, local_proxy_b
LocalProxyB(input) ==
    LET transform == RelativeTransform(input)
    IN  [points |-> [i \in 1..input.proxy_b.count |->
                        TransformPoint(transform, input.proxy_b.points[i])],
         count |-> input.proxy_b.count,
         radius |-> input.proxy_b.radius]

\* Distance::compute up to the loop.  save_a and save_b are not initialised
\* by the code: they start with whatever the stack holds (garbage).
DistanceEnter(input, cache, garbage) ==
    LET local_proxy_b == LocalProxyB(input)
    IN  [local_proxy_b |-> local_proxy_b,
         simplex |-> Simplex_create(cache, input.proxy_a, local_proxy_b),
         save_a |-> garbage.a,
         save_b |-> garbage.b,
         save_count |-> 0,
         iteration |-> 0,
         bodies |-> 0,
         support |-> <<invalid_index, invalid_index>>,
         non_unit_normal |-> Vec2_zero,
         exit |-> "run"]

DuplicateNever(save_a, save_b, save_count, index_a, index_b) == FALSE

\* the duplicate test: std::ranges::contains over zip(save_a, save_b), that
\* is over all three slots of both arrays
DuplicateSupport(save_a, save_b, save_count, index_a, index_b) ==
    \E i \in 1..3 : save_a[i] = index_a /\ save_b[i] = index_b

\* one body of the main iteration loop of Distance::compute
DistanceIteration(input, st) ==
    Local({
        Local({
            IF sol.simplex.type = TRIANGLE
            THEN [saved EXCEPT !.exit = "overlap"]
            ELSE IF NearZero(sol.d)
            THEN [saved EXCEPT !.exit = "overlap"]
            ELSE Local({
                Local({
                    IF DuplicateSupport(saved.save_a, saved.save_b, st.simplex.type,
                                        index_a, index_b)
                    THEN [found EXCEPT !.exit = "duplicate"]
                    ELSE [found EXCEPT !.simplex.type = sol.simplex.type + 1,
                                       !.iteration = st.iteration + 1]
                    : found \in
                        {[saved EXCEPT
                            !.non_unit_normal = sol.d,
                            !.support = <<index_a, index_b>>,
                            !.simplex.vertices =
                                [sol.simplex.vertices EXCEPT
                                    ![sol.simplex.type + 1] =
                                        Vertex(PointAt(input.proxy_a, index_a),
                                               PointAt(st.local_proxy_b, index_b),
                                               sol.simplex.vertices[sol.simplex.type + 1].weight,
                                               index_a, index_b)]]}})
                : index_a \in {find_support(input.proxy_a, sol.d)},
                  index_b \in {find_support(st.local_proxy_b, VNeg(sol.d))}})
            : saved \in
                {[st EXCEPT
                    !.save_a = [i \in 1..3 |-> IF i <= st.simplex.type
                                               THEN st.simplex.vertices[i].index_a
                                               ELSE st.save_a[i]],
                    !.save_b = [i \in 1..3 |-> IF i <= st.simplex.type
                                               THEN st.simplex.vertices[i].index_b
                                               ELSE st.save_b[i]],
                    !.save_count = st.simplex.type,
                    !.bodies = st.bodies + 1,
                    !.simplex = sol.simplex]}})
        : sol \in {solve(st.simplex)}})

\* the loop condition of the main iteration loop
DistanceLooping(st) ==
    st.exit = "run" /\ st.iteration < BPP_COLLISION_DISTANCE_MAX_ITERATIONS

RECURSIVE DistanceLoop(_, _)
DistanceLoop(input, st) ==
    IF DistanceLooping(st) THEN DistanceLoop(input, DistanceIteration(input, st))
    ELSE st

DOutput(pa, pb, n, dist) ==
    [point_a |-> pa, point_b |-> pb, normal |-> n, distance |-> dist]

\* the overlap result that keeps the last search direction as normal
FallbackKeepsNormal(input, st) ==
    LET cp == compute_closest_points(st.simplex)
    IN  DOutput(TransformPoint(input.transform_a, cp[1]),
                TransformPoint(input.transform_a, cp[2]),
                Normalize(st.non_unit_normal), 0)

\* fallback_overlap_result
fallback_overlap_result(input, st) ==
    LET cp == compute_closest_points(st.simplex)
    IN  DOutput(TransformPoint(input.transform_a, cp[1]),
                TransformPoint(input.transform_a, cp[2]),
                Vec2_zero, 0)

\* Distance::compute, "Prepare output" to the return
DistanceOutput(input, st) ==
    LET normal == Rotate(input.transform_a.rotation, Normalize(st.non_unit_normal))
        cp == compute_closest_points(st.simplex)
        point_a == TransformPoint(input.transform_a, cp[1])
        point_b == TransformPoint(input.transform_a, cp[2])
        distance == Length(VSub(cp[2], cp[1]))
        radius_a == input.proxy_a.radius
        radius_b == input.proxy_b.radius
    IN  IF input.use_radii
        THEN DOutput(multiply_add(point_a, radius_a, normal),
                     multiply_sub(point_b, radius_b, normal),
                     normal,
                     Max(distance - radius_a - radius_b, 0))
        ELSE DOutput(point_a, point_b, normal, distance)

\* inout_cache written from the final simplex on every return
CacheAlwaysRefreshed(cache, st) == Simplex_cache(st.simplex)

\* inout_cache left as the caller passed it
CacheLeftAlone(cache, st) == cache

\* the value of inout_cache when Distance::compute returns
DistanceCacheOut(cache, st) ==
    IF st.exit = "overlap" THEN cache ELSE Simplex_cache(st.simplex)

\* the return value of Distance::compute
DistanceReturn(input, st) ==
    IF st.exit = "overlap" THEN fallback_overlap_result(input, st)
    ELSE DistanceOutput(input, st)

\* what a call of Distance::compute leaves: its return value and the cache
DistanceExit(input, cache, st) ==
    [result |-> DistanceReturn(input, st),
     cache |-> DistanceCacheOut(cache, st),
     bodies |-> st.bodies,
     exit |-> st.exit]

\* Distance::compute(input, inout_cache) as one call
Distance_compute(input, cache, garbage) ==
    DistanceExit(input, cache,
                 DistanceLoop(input, DistanceEnter(input, cache, garbage)))

\* ---------------------------------------------------------------- Sweep
MkSweep(lc, c1, c2, q1, q2) ==
    [local_center |-> lc, c1 |-> c1, c2 |-> c2, q1 |-> q1, q2 |-> q2]

\* t * x for a time fraction t
TMul(t, x) == RoundDiv(t * x, TimeOne)

\* Sweep::transform_of
transform_of(sweep, t) ==
    LET q == Rot(TMul(TimeOne - t, sweep.q1.cos) + TMul(t, sweep.q2.cos),
                 TMul(TimeOne - t, sweep.q1.sin) + TMul(t, sweep.q2.sin))
        p == Vec(TMul(TimeOne - t, sweep.c1.x) + TMul(t, sweep.c2.x),
                 TMul(TimeOne - t, sweep.c1.y) + TMul(t, sweep.c2.y))
        Place(q_normalized) ==
            Xf(VSub(p, Rotate(q_normalized, sweep.local_center)), q_normalized)
    IN  Place(RotNormalize(q))

\* ----------------------------------------------------- SeparationSolver
MkSolver(witness, axis, type, ia, ib, flip) ==
    [local_witness |-> witness, local_axis |-> axis, axis_type |-> type,
     cached_index_a |-> ia, cached_index_b |-> ib, flip_axis |-> flip]

\* (p1 + p2) * .5f
Midpoint(p1, p2) == Vec(RoundDiv(p1.x + p2.x, 2), RoundDiv(p1.y + p2.y, 2))

\* SeparationSolver::initialize_from_cache
initialize_from_cache(cache, proxy_a, proxy_b, transform_a, transform_b) ==
    IF cache.type = POINT
    THEN LET index_a == cache.index_a[1]
             index_b == cache.index_b[1]
             point_a == TransformPoint(transform_a, PointAt(proxy_a, index_a))
             point_b == TransformPoint(transform_b, PointAt(proxy_b, index_b))
         IN  MkSolver(Vec2_zero, Normalize(VSub(point_b, point_a)), "POINTS",
                      index_a, index_b, FALSE)
    ELSE IF cache.index_a[1] = cache.index_a[2]
    THEN LET index_a == cache.index_a[1]
             local_point_b1 == PointAt(proxy_b, cache.index_b[1])
             local_point_b2 == PointAt(proxy_b, cache.index_b[2])
             edge == VSub(local_point_b2, local_point_b1)
             local_axis == Normalize(CrossVS(edge, 1))
             local_witness == Midpoint(local_point_b1, local_point_b2)
             point_a == TransformPoint(transform_a, PointAt(proxy_a, index_a))
             point_b == TransformPoint(transform_b, local_witness)
             normal_world == Rotate(transform_b.rotation, local_axis)
             sign == Dot(VSub(point_a, point_b), normal_world)
         IN  MkSolver(local_witness, local_axis, "FACE_B",
                      index_a, invalid_index, sign < 0)
    ELSE LET index_b == cache.index_b[1]
             local_point_a1 == PointAt(proxy_a, cache.index_a[1])
             local_point_a2 == PointAt(proxy_a, cache.index_a[2])
             edge == VSub(local_point_a2, local_point_a1)
             local_axis == Normalize(CrossVS(edge, 1))
             local_witness == Midpoint(local_point_a1, local_point_a2)
             point_a == TransformPoint(transform_a, local_witness)
             point_b == TransformPoint(transform_b, PointAt(proxy_b, index_b))
             normal_world == Rotate(transform_a.rotation, local_axis)
             sign == Dot(VSub(point_b, point_a), normal_world)
         IN  MkSolver(local_witness, local_axis, "FACE_A",
                      invalid_index, index_b, sign < 0)

\* (p - q).dot(normal) for a unit vector normal
Separation(p, q, normal) == RoundDiv(Dot(VSub(p, q), normal), One)

\* SeparationSolver::evaluate_with_indices
evaluate_with_indices(input, solver, transform_a, transform_b, normal, index_a, index_b) ==
    CASE solver.axis_type = "POINTS" ->
            Separation(TransformPoint(transform_b, PointAt(input.proxy_b, index_b)),
                       TransformPoint(transform_a, PointAt(input.proxy_a, index_a)),
                       normal)
      [] solver.axis_type = "FACE_A" ->
            Separation(TransformPoint(transform_b, PointAt(input.proxy_b, index_b)),
                       TransformPoint(transform_a, solver.local_witness),
                       normal)
      [] solver.axis_type = "FACE_B" ->
            Separation(TransformPoint(transform_a, PointAt(input.proxy_a, index_a)),
                       TransformPoint(transform_b, solver.local_witness),
                       normal)

\* SeparationSolver::world_normal
world_normal(input, solver, t) ==
    LET flipped == IF solver.flip_axis THEN VNeg(solver.local_axis)
                   ELSE solver.local_axis
    IN  CASE solver.axis_type = "POINTS" ->
                Rotate(transform_of(input.sweep_a, t).rotation, solver.local_axis)
          [] solver.axis_type = "FACE_A" ->
                Rotate(transform_of(input.sweep_a, t).rotation, flipped)
          [] solver.axis_type = "FACE_B" ->
                Rotate(transform_of(input.sweep_b, t).rotation, flipped)

\* SeparationSolver::evaluate (through evaluate_with_transform); at a time
\* that is not finite every product is NaN
evaluate(input, solver, t) ==
    IF IsSpecial(t) THEN NaN
    ELSE evaluate_with_indices(input, solver,
                               transform_of(input.sweep_a, t),
                               transform_of(input.sweep_b, t),
                               world_normal(input, solver, t),
                               solver.cached_index_a, solver.cached_index_b)

\* SeparationSolver::find_min_separation at a time that is NaN: no
\* comparison of find_support succeeds, so every support index is 0
FindMinSeparationNaN(solver) ==
    [solver |-> [solver EXCEPT
                    !.cached_index_a = IF solver.axis_type = "FACE_A"
                                       THEN invalid_index ELSE 0,
                    !.cached_index_b = IF solver.axis_type = "FACE_B"
                                       THEN invalid_index ELSE 0],
     s |-> NaN]

\* SeparationSolver::find_min_separation: the solver with its cached
\* indices updated, and the separation
find_min_separation(input, solver, t) ==
    LET Found(transform_a, transform_b, normal, ia, ib) ==
            [solver |-> [solver EXCEPT !.cached_index_a = ia, !.cached_index_b = ib],
             s |-> evaluate_with_indices(input, solver, transform_a, transform_b,
                                         normal, ia, ib)]
        Points(transform_a, transform_b, axis_world) ==
            Found(transform_a, transform_b, axis_world,
                  find_support(input.proxy_a,
                               InvRotate(transform_a.rotation, axis_world)),
                  find_support(input.proxy_b,
                               InvRotate(transform_b.rotation, VNeg(axis_world))))
        FaceA(transform_a, transform_b, normal_world) ==
            Found(transform_a, transform_b, normal_world, invalid_index,
                  find_support(input.proxy_b,
                               InvRotate(transform_b.rotation, VNeg(normal_world))))
        FaceB(transform_a, transform_b, normal_world) ==
            Found(transform_a, transform_b, normal_world,
                  find_support(input.proxy_a,
                               InvRotate(transform_a.rotation, VNeg(normal_world))),
                  invalid_index)
        At(transform_a, transform_b) ==
            CASE solver.axis_type = "POINTS" ->
                    Points(transform_a, transform_b,
                           Rotate(transform_a.rotation, solver.local_axis))
              [] solver.axis_type = "FACE_A" ->
                    FaceA(transform_a, transform_b,
                          Rotate(transform_a.rotation, solver.local_axis))
              [] solver.axis_type = "FACE_B" ->
                    FaceB(transform_a, transform_b,
                          Rotate(transform_b.rotation, solver.local_axis))
    IN  IF IsSpecial(t) THEN FindMinSeparationNaN(solver)
        ELSE At(transform_of(input.sweep_a, t), transform_of(input.sweep_b, t))

\* SeparationSolver::witness_points
witness_points(input, solver, t) ==
    LET ia == IF solver.cached_index_a = invalid_index THEN 0 ELSE solver.cached_index_a
        ib == IF solver.cached_index_b = invalid_index THEN 0 ELSE solver.cached_index_b
        local_point_a == IF solver.axis_type = "FACE_A" THEN solver.local_witness
                         ELSE PointAt(input.proxy_a, ia)
        local_point_b == IF solver.axis_type = "FACE_B" THEN solver.local_witness
                         ELSE PointAt(input.proxy_b, ib)
    IN  <<TransformPoint(transform_of(input.sweep_a, t), local_point_a),
          TransformPoint(transform_of(input.sweep_b, t), local_point_b)>>

\* ------------------------------------------------------------ TOI::compute
TOIInput(pa, pb, sa, sb, mf) ==
    [proxy_a |-> pa, proxy_b |-> pb, sweep_a |-> sa, sweep_b |-> sb,
     max_fraction |-> mf]

TOIOut(state, point, normal, fraction, separation) ==
    [state |-> state, point |-> point, normal |-> normal,
     fraction |-> fraction, separation |-> separation]

\* TOI::compute, "Early exit for zero motion": the condition
StaticCase(input) ==
    /\ input.sweep_a.c1 = input.sweep_a.c2
    /\ input.sweep_a.q1 = input.sweep_a.q2
    /\ input.sweep_b.c1 = input.sweep_b.c2
    /\ input.sweep_b.q1 = input.sweep_b.q2

\* the DistanceInput of the query at time t
SweepDistanceInput(input, t, radii) ==
    DInput(input.proxy_a, input.proxy_b,
           transform_of(input.sweep_a, t), transform_of(input.sweep_b, t), radii)

\* the static case with "distance < 0" for "distance <= 0"
StaticResultStrict(input, distance) ==
    IF distance.distance < 0
    THEN [state |-> "OVERLAPPED", point |-> Vec2_zero, normal |-> Vec2_zero,
          fraction |-> 0, separation |-> distance.distance]
    ELSE [state |-> "SEPARATED", point |-> Vec2_zero, normal |-> Vec2_zero,
          fraction |-> input.max_fraction, separation |-> distance.distance]

\* TOI::compute, static case: the result from the distance output
StaticResult(input, distance) ==
    IF distance.distance <= 0
    THEN TOIOut("OVERLAPPED", Midpoint(distance.point_a, distance.point_b),
                Vec2_zero, 0, distance.distance)
    ELSE TOIOut("SEPARATED", Vec2_zero, Vec2_zero, input.max_fraction,
                distance.distance)

\* linear_slop * .25f
tolerance == RoundDiv(BPP_LINEAR_SLOP, 4)

\* the target separation without the radii
TargetWithoutRadii(input) == BPP_LINEAR_SLOP

\* max(linear_slop, total_radius - linear_slop)
target(input) ==
    Max(BPP_LINEAR_SLOP,
        input.proxy_a.radius + input.proxy_b.radius - BPP_LINEAR_SLOP)

\* the contact point between the two rounded surfaces
SurfacePoint(input, distance) ==
    Midpoint(multiply_add(distance.point_a, input.proxy_a.radius, distance.normal),
             multiply_sub(distance.point_b, input.proxy_b.radius, distance.normal))

\* the overlap exit that reports OVERLAPPED at every time
OverlapStateAlways(t1) == "OVERLAPPED"

\* TOI::compute, "Check for overlap": the state returned at time t1
OverlapState(t1) == IF t1 = 0 THEN "OVERLAPPED" ELSE "HIT"

\* TOI::compute, "Check for overlap": the result
OverlapResult(input, t1, distance) ==
    TOIOut(OverlapState(t1), SurfacePoint(input, distance),
           IF t1 = 0 THEN Vec2_zero ELSE distance.normal,
           t1, distance.distance)

\* TOI::compute, "Check if we've reached target separation": the result
TargetResult(input, t1, distance) ==
    TOIOut("HIT", SurfacePoint(input, distance), distance.normal, t1,
           distance.distance)

\* the SeparationSolver constructor
SeparationSolver(input, cache, t1) ==
    initialize_from_cache(cache, input.proxy_a, input.proxy_b,
                          transform_of(input.sweep_a, t1),
                          transform_of(input.sweep_b, t1))

\* ---- find_root_bracketed
\* (a + b) * .5f for a finite a
Half(a, b) ==
    IF b = NaN THEN NaN
    ELSE IF b = PosInf \/ b = NegInf THEN b
    ELSE RoundDiv(a + b, 2)

\* a + (target - fa) * (b - a) / denominator
SecantRule(tgt, a, fa, b, fb) ==
    IF IsSpecial(b) \/ fb = NaN THEN NaN
    ELSE LET denominator == fb - fa
             numerator == (tgt - fa) * (b - a)
         IN  IF denominator = 0
             THEN IF numerator = 0 THEN NaN
                  ELSE IF numerator > 0 THEN PosInf ELSE NegInf
             ELSE a + FDiv(numerator, denominator)

\* one body of the loop of find_root_bracketed
RootIteration(input, solver, st) ==
    LET counted == [st EXCEPT !.root_iteration = @ + 1]
        Update(t, ft) ==
            IF ft # NaN /\ ft > 0 THEN [counted EXCEPT !.a = t, !.fa = ft]
            ELSE [counted EXCEPT !.b = t, !.fb = ft]
        Bracket(updated) ==
            IF /\ ~IsSpecial(updated.b)
               /\ Abs(updated.b - updated.a) * Metre < tolerance * TimeOne
            THEN [updated EXCEPT !.returned = TRUE,
                                 !.root = Half(updated.a, updated.b)]
            ELSE updated
        Converge(t, ft) ==
            IF ft # NaN /\ Abs(ft) < tolerance
            THEN [counted EXCEPT !.returned = TRUE, !.root = t]
            ELSE Bracket(Update(t, ft))
        Minus(t, e) == Converge(t, IF e = NaN THEN NaN ELSE e - target(input))
        Try(t) == Minus(t, evaluate(input, solver, t))
    IN  IF st.root_iteration % 2 = 1
        THEN Try(SecantRule(target(input), st.a, st.fa, st.b, st.fb))
        ELSE Try(Half(st.a, st.b))

\* root_iteration <= max_root_iterations
RootLoopingOneMore(st) == ~st.returned /\ st.root_iteration <= max_root_iterations

\* root_iteration < max_root_iterations
RootLooping(st) == ~st.returned /\ st.root_iteration < max_root_iterations

RECURSIVE RootLoop(_, _, _)
RootLoop(input, solver, st) ==
    IF RootLooping(st) THEN RootLoop(input, solver, RootIteration(input, solver, st))
    ELSE st

\* find_root_bracketed: the root and the number of loop bodies run
find_root_bracketed(input, solver, a, fa, b, fb) ==
    LET Estimate(st) ==
            [root |-> IF st.returned THEN st.root ELSE Half(st.a, st.b),
             iterations |-> st.root_iteration]
    IN  Estimate(RootLoop(input, solver,
                          [a |-> a, fa |-> fa, b |-> b, fb |-> fb,
                           root_iteration |-> 0, returned |-> FALSE, root |-> NaN]))

\* the root taken as the root finder gives it
RootUnclamped(root, t1, t2) == root

\* "Root finder failed, use conservative estimate"
ClampRoot(root, t1, t2) ==
    IF FLess(root, t1) \/ FLess(t2, root) THEN Half(t1, t2) ELSE root

\* ----------------------------------------------------- ShapeCast::test
CastOut(hit, normal, point, fraction) ==
    [hit |-> hit, normal |-> normal, point |-> point, fraction |-> fraction]

\* ShapeCast::test, "Zero translation, perform static overlap test"
CastStaticResult(distance) ==
    IF distance.distance <= 0
    THEN CastOut(TRUE, Vec2_zero, Midpoint(distance.point_a, distance.point_b), 0)
    ELSE CastOut(FALSE, Vec2_zero, Vec2_zero, 0)

\* ShapeCast::test, the locals before the loop; distance and approach_speed
\* are those of the last loop body run
CastEnter(input) ==
    [target |-> target(input), cache |-> SimplexCache_zero, fraction |-> 0,
     iteration |-> 0, evaluations |-> 0, transform_b |-> input.transform_b,
     distance |-> 0, approach_speed |-> 0,
     returned |-> FALSE, out |-> CastOut(FALSE, Vec2_zero, Vec2_zero, 0)]

\* iteration < BPP_COLLISION_DISTANCE_MAX_ITERATIONS
CastLooping(sc) ==
    ~sc.returned /\ sc.iteration < BPP_COLLISION_DISTANCE_MAX_ITERATIONS

\* the separation test that takes any distance for near
CastNearAlways(distance, tgt) == TRUE

\* "Check if we're close enough to the target separation"
CastNear(distance, tgt) == distance.distance < tgt + tolerance

\* the tightening of the target allowed however close the shapes start
CastEncroachWhenClose(input, iteration, distance) ==
    iteration = 0 /\ input.can_encroach

\* "Allow shapes to get slightly closer": the condition, first iteration only
CastEncroach(input, iteration, distance) ==
    iteration = 0 /\ input.can_encroach /\ distance.distance > BPP_LINEAR_SLOP * 2

\* the miss taken when the shapes close in
CastClosing(approach_speed) == approach_speed <= 0

\* "Shapes are moving apart or parallel, no collision"
CastSeparating(approach_speed) == approach_speed >= 0

\* the sweep that is never cut at max_fraction
CastNeverBeyond(input, fraction) == FALSE

\* "Would collide beyond max_fraction"
CastBeyond(input, fraction) == fraction >= input.max_fraction

\* one body of the loop of ShapeCast::test; call is what
\* Distance::compute(distance_input, cache) leaves
CastIteration(input, sc, call) ==
    LET distance == call.result
        delta == input.translation_b
        near == CastNear(distance, sc.target)
        encroach == near /\ CastEncroach(input, sc.iteration, distance)
        new_target == IF encroach THEN distance.distance - BPP_LINEAR_SLOP
                      ELSE sc.target
        \* delta.dot(distance.normal), scaled by One
        approach_speed == Dot(delta, distance.normal)
        required_movement ==
            FDiv((new_target - distance.distance) * One * TimeOne, approach_speed)
        fraction == sc.fraction + required_movement
        queried == [sc EXCEPT !.cache = call.cache, !.evaluations = @ + 1,
                              !.target = new_target,
                              !.distance = distance.distance,
                              !.approach_speed = approach_speed]
    IN  IF near /\ ~encroach
        THEN IF sc.iteration = 0
             THEN [queried EXCEPT !.returned = TRUE,
                      !.out = CastOut(TRUE, Vec2_zero,
                                      Midpoint(multiply_add(distance.point_a,
                                                            input.proxy_a.radius,
                                                            distance.normal),
                                               multiply_add(distance.point_b,
                                                            -input.proxy_b.radius,
                                                            distance.normal)),
                                      0)]
             ELSE [queried EXCEPT !.returned = TRUE,
                      !.out = CastOut(TRUE, distance.normal,
                                      multiply_add(distance.point_a,
                                                   input.proxy_a.radius,
                                                   distance.normal),
                                      sc.fraction)]
        ELSE IF CastSeparating(approach_speed)
        THEN [queried EXCEPT !.returned = TRUE]
        ELSE IF CastBeyond(input, fraction)
        THEN [queried EXCEPT !.returned = TRUE, !.fraction = fraction]
        ELSE [queried EXCEPT !.fraction = fraction,
                 !.iteration = @ + 1,
                 !.transform_b = Xf(VAdd(input.transform_b.point,
                                         Vec(TMul(fraction, delta.x),
                                             TMul(fraction, delta.y))),
                                    input.transform_b.rotation)]

\* ------------------------------------------- TOI::compute, the two loops
\* the locals of TOI::compute before the outer loop
TOIEnter ==
    [t1 |-> 0, t2 |-> 0, cache |-> SimplexCache_zero,
     distance_iteration |-> 0, push_back_iteration |-> 0, found_hit |-> FALSE,
     solver |-> MkSolver(Vec2_zero, Vec2_zero, "POINTS", 0, 0, FALSE),
     distance |-> 0, root_iterations |-> 0, step |-> "outer"]

\* the outer loop body up to the push-back loop: the distance query at t1
\* (call is what Distance::compute(distance_input, cache) leaves),
\* the overlap and target checks, the solver.  step tells how it ends:
\* "return" with the result in out, "abort" on the failed assertion of the
\* SeparationSolver constructor, "push" into the push-back loop.
OuterIteration(input, toi, call) ==
    LET distance == call.result
        queried == [toi EXCEPT !.cache = call.cache,
                               !.distance = distance.distance]
    IN  IF distance.distance <= 0
        THEN [toi |-> [queried EXCEPT !.step = "return"],
              out |-> OverlapResult(input, toi.t1, distance)]
        ELSE IF distance.distance <= target(input) + tolerance
        THEN [toi |-> [queried EXCEPT !.step = "return"],
              out |-> TargetResult(input, toi.t1, distance)]
        ELSE IF ~(call.cache.type = POINT \/ call.cache.type = LINE_SEGMENT)
        THEN [toi |-> [queried EXCEPT !.step = "abort"],
              out |-> TOIOut("ABORTED", Vec2_zero, Vec2_zero, toi.t1, 0)]
        ELSE [toi |-> [queried EXCEPT
                          !.solver = SeparationSolver(input, call.cache, toi.t1),
                          !.t2 = input.max_fraction,
                          !.found_hit = FALSE,
                          !.push_back_iteration = 0,
                          !.step = "push"],
              out |-> TOIOut("RUNNING", Vec2_zero, Vec2_zero, 0, 0)]

\* the result of the two "return best estimate" exits of the push-back loop
PushBackHit(input, solver, t1, s1) ==
    LET points == witness_points(input, solver, t1)
    IN  TOIOut("HIT", Midpoint(points[1], points[2]),
               world_normal(input, solver, t1), t1, s1)

\* push_back_iteration < BPP_MAX_POLYGON_VERTICES
PushBackLooping(toi) ==
    toi.step = "push" /\ toi.push_back_iteration < BPP_MAX_POLYGON_VERTICES

\* one body of the push-back loop; found is what
\* solver.find_min_separation(t2) leaves.  step: "after" on a break, "return" with
\* the result in out, "push" to go round again.  The exits for
\* s1 < target - tolerance and for s1 <= target + tolerance return the same
\* result and are one branch here.
PushBackIteration(input, toi, found) ==
    LET s2 == found.s
        solver == found.solver
        running == TOIOut("RUNNING", Vec2_zero, Vec2_zero, 0, 0)
        moved == [toi EXCEPT !.solver = solver]
        Narrow(root) ==
            [toi |-> [moved EXCEPT
                         !.t2 = ClampRoot(root.root, toi.t1, toi.t2),
                         !.root_iterations = root.iterations,
                         !.push_back_iteration = @ + 1],
             out |-> running]
        Start(s1) ==
            IF s1 <= target(input) + tolerance
            THEN [toi |-> [moved EXCEPT !.step = "return"],
                  out |-> PushBackHit(input, solver, toi.t1, s1)]
            ELSE Narrow(find_root_bracketed(input, solver, toi.t1, s1, toi.t2, s2))
    IN  IF FLess(target(input) + tolerance, s2)
        THEN [toi |-> [moved EXCEPT !.t1 = toi.t2, !.step = "after"],
              out |-> running]
        ELSE IF FLess(target(input) - tolerance, s2)
        THEN [toi |-> [moved EXCEPT !.t1 = toi.t2, !.found_hit = TRUE,
                                    !.step = "after"],
              out |-> running]
        ELSE Start(evaluate(input, solver, toi.t1))

\* the first of the two SEPARATED exits alone
SeparatedFirstExitOnly(input, toi) ==
    ~toi.found_hit /\ toi.t2 # NaN /\ toi.t2 >= input.max_fraction

\* TOI::compute after the push-back loop: the two SEPARATED exits
SeparatedAfterPushBack(input, toi) ==
    \/ ~toi.found_hit /\ toi.t2 # NaN /\ toi.t2 >= input.max_fraction
    \/ toi.t1 >= input.max_fraction

SeparatedResult(input, toi) ==
    TOIOut("SEPARATED", Vec2_zero, Vec2_zero, input.max_fraction,
           evaluate(input, toi.solver, input.max_fraction))

\* FAILED that carries fraction 0
FailedAtStart(toi) ==
    [state |-> "FAILED", point |-> Vec2_zero, normal |-> Vec2_zero,
     fraction |-> 0, separation |-> 0]

\* TOI::compute, "Algorithm failed to converge"
FailedResult(toi) == TOIOut("FAILED", Vec2_zero, Vec2_zero, toi.t1, 0)

\* ----------------------------------------------------------------- Hull
\* a Hull: points[0 .. count - 1]
Hull(pts) == [points |-> pts, count |-> Len(pts)]

\* Vec2::distance_squared
DistanceSquared(a, b) == Dot(VSub(a, b), VSub(a, b))

\* (p - p1).cross(e) for the unit vector e, scaled by One
EdgeDistance(p, p1, e) == Cross(VSub(p, p1), e)

\* the length linear_slop * 2 on the scale of EdgeDistance
TwoSlop == BPP_LINEAR_SLOP * 2 * One

\* Hull::recurse_create: the hull points strictly between p1 and p2, right of
\* the edge p1 -> p2.  best_index is the first point of the greatest distance
\* right of e; distance[i] is the distance of points[i].
RECURSIVE recurse_create(_, _, _)
recurse_create(p1, p2, points) ==
    IF points = <<>> THEN <<>>
    ELSE Local({
        Local({
            Local({
                IF EdgeDistance(points[best_index], p1, e) < TwoSlop THEN <<>>
                ELSE Local({
                    \* "stitch together hulls"
                    recurse_create(p1, points[best_index], right_points)
                        \o <<points[best_index]>>
                        \o recurse_create(points[best_index], p2, right_points)
                    : right_points \in
                        {SelectSeq(points, LAMBDA p : EdgeDistance(p, p1, e) > 0)}})
                : best_index \in
                    {CHOOSE i \in 1..Len(points) :
                        \A j \in 1..Len(points) :
                            \/ distance[j] < distance[i]
                            \/ (distance[j] = distance[i] /\ i <= j)}})
            : distance \in {[i \in 1..Len(points) |-> EdgeDistance(points[i], p1, e)]}})
        : e \in {Normalize(VSub(p2, p1))}})

\* Hull::create, "Perform aggressive point welding. First point always
\* remains": a point stays when no earlier input point is within the weld
\* tolerance; the kept points stay in input order
Weld(points) ==
    Local({
        [i \in 1..Cardinality(kept) |->
            points[CHOOSE k \in kept : Cardinality({j \in kept : j < k}) = i - 1]]
        : kept \in
            {{i \in 1..Len(points) :
                \A j \in 1..(i - 1) :
                    DistanceSquared(points[i], points[j])
                        >= BPP_LINEAR_SLOP * BPP_LINEAR_SLOP * 16}}})

\* Hull::create, find_furthest_point_index(c, base), 1-based: the first of
\* the points furthest from base among the first c of computed_points.  base
\* is given doubled (the centre of the bounding box has half-step
\* coordinates), points are doubled to match.
find_furthest_point_index(computed_points, c, base2) ==
    Local({
        CHOOSE i \in 1..c : \A j \in 1..c : F[j] < F[i] \/ (F[j] = F[i] /\ i <= j)
        : F \in
            {[i \in 1..c |->
                DistanceSquared(Vec(2 * computed_points[i].x, 2 * computed_points[i].y),
                                base2)]}})

\* Hull::create, "merge collinear": while some point s2 is within twice the
\* linear slop of the line s1 -> s3 of its neighbours, or left of it, the
\* first such point is removed.  flat[i1 + 1] tells it of the point after
\* pts[i1 + 1]; i2 is the 0-based index of the point removed.
RECURSIVE MergeCollinear(_)
MergeCollinear(pts) ==
    IF Len(pts) <= 2 THEN pts
    ELSE Local({
        IF \A i \in 1..Len(pts) : ~flat[i] THEN pts
        ELSE Local({
            \* "remove midpoint from hull", "continue searching"
            Local({MergeCollinear(rest) :
                   rest \in {SubSeq(pts, 1, i2) \o SubSeq(pts, i2 + 2, Len(pts))}})
            : i2 \in
                {(CHOOSE i \in 1..Len(pts) : flat[i] /\ \A j \in 1..(i - 1) : ~flat[j])
                    % Len(pts)}})
        : flat \in
            {[i \in 1..Len(pts) |->
                EdgeDistance(pts[(i % Len(pts)) + 1], pts[i],
                             Normalize(VSub(pts[((i + 1) % Len(pts)) + 1], pts[i])))
                    <= TwoSlop]}})

HullCountAny(size) == size >= 3

\* Hull::create, the number of input points it accepts
HullCountOk(size) == size >= 3 /\ size <= BPP_MAX_POLYGON_VERTICES

\* Hull::create, "remove ... from working set": the last point takes the place
HullRemove(set, index) == SubSeq([set EXCEPT ![index] = set[Len(set)]], 1, Len(set) - 1)

\* Hull::create, from the two extreme points on: computed_points is the
\* working set without p1 and p2
HullSplit(p1, p2, computed_points) ==
    Local({
        Local({
            \* "stitch hulls together, preserving CCW winding order"
            IF h1 = <<>> \/ h2 = <<>> THEN Hull(<<>>)
            ELSE Local({IF Len(merged) < 3 THEN Hull(<<>>) ELSE Hull(merged) :
                        merged \in {MergeCollinear(<<p1>> \o h1 \o <<p2>> \o h2)}})
            : h1 \in
                {recurse_create(p1, p2,
                    SelectSeq(computed_points,
                              LAMBDA p : EdgeDistance(p, p1, e) >= TwoSlop))},
              h2 \in
                {recurse_create(p2, p1,
                    SelectSeq(computed_points,
                              LAMBDA p : EdgeDistance(p, p1, e) <= -TwoSlop))}})
        : e \in {Normalize(VSub(p2, p1))}})

\* Hull::create.  The lambda find_furthest_point_index captures
\* computed_points by copy when it is created, after the welding: its second
\* call searches the first computed_count - 1 of the welded points, not the
\* working set from which p1 has been removed.
Hull_create(points) ==
    IF ~HullCountOk(Len(points)) THEN Hull(<<>>)
    ELSE Local({
        IF Len(welded) < 3 THEN Hull(<<>>)
        ELSE Local({
            Local({
                Local({
                    HullSplit(welded[index_p1], without_p1[index_p2],
                              HullRemove(without_p1, index_p2))
                    : index_p2 \in
                        {find_furthest_point_index(
                            welded, Len(welded) - 1,
                            Vec(2 * welded[index_p1].x, 2 * welded[index_p1].y))}})
                : without_p1 \in {HullRemove(welded, index_p1)}})
            : index_p1 \in
                \* c: aabb.center(), doubled
                {find_furthest_point_index(welded, Len(welded), c) :
                 c \in {Vec(lx + ux, ly + uy) :
                        lx \in {x \in xs : \A o \in xs : x <= o},
                        ux \in {x \in xs : \A o \in xs : x >= o},
                        ly \in {y \in ys : \A o \in ys : y <= o},
                        uy \in {y \in ys : \A o \in ys : y >= o}}}})
        : welded \in {Weld(points)},
          xs \in {{points[i].x : i \in 1..Len(points)}},
          ys \in {{points[i].y : i \in 1..Len(points)}}})

\* Hull::valid
Hull_valid(hull) ==
    LET count == hull.count
        P(i) == hull.points[(i % count) + 1]
        Behind(i1, i) ==
            EdgeDistance(P(i), P(i1), Normalize(VSub(P(i1 + 1), P(i1)))) < 0
        Bent(i1) ==
            EdgeDistance(P(i1 + 1), P(i1), Normalize(VSub(P(i1 + 2), P(i1))))
                > BPP_LINEAR_SLOP * One
    IN  /\ count >= 3 /\ count <= BPP_MAX_POLYGON_VERTICES
        /\ \A i1 \in 0..(count - 1) :
              \A i \in (0..(count - 1)) \ {i1, (i1 + 1) % count} : Behind(i1, i)
        /\ \A i1 \in 0..(count - 1) : Bent(i1)

\* --------------------------------------------------------------- shapes
\* Capsule::in.  t is the clamped parameter of the closest point c of the
\* segment, in units of 1 / One.  The last comparison is of a squared
\* distance with the radius itself, in metres: d2 / Metre^2 <= radius / Metre.
Capsule_in(capsule, point) ==
    IF capsule.center2 = capsule.center1
    THEN \* "Capsule is really a circle"
         DistanceSquared(capsule.center1, point) <= capsule.radius * capsule.radius
    ELSE Local({
        Local({
            Local({
                \* "Is query point within radius around closest point?"
                DistanceSquared(point, c) <= capsule.radius * Metre
                : c \in {VAdd(capsule.center1,
                              Vec(RoundDiv(t * diff.x, One), RoundDiv(t * diff.y, One)))}})
            : t \in {Max(0, -Max(-One,
                                 -FDiv(Dot(VSub(point, capsule.center1), diff) * One,
                                       Dot(diff, diff))))}})
        : diff \in {VSub(capsule.center2, capsule.center1)}})

\* std::numeric_limits<float>::max() is above every coordinate;
\* std::numeric_limits<float>::min() is the least positive normal float, far
\* below one grid step: 0 on the grid
FloatLimits == [max |-> 1073741824, min |-> 0]

\* AABB::compute(polygon, transform): min_p starts from the greatest and max_p
\* from the least positive float, and both take in every transformed vertex
AABB_compute(polygon, transform) ==
    Local({
        Local({
            [lower |-> Vec(min_x - polygon.radius, min_y - polygon.radius),
             upper |-> Vec(max_x + polygon.radius, max_y + polygon.radius)]
            : min_x \in {x \in xs \cup {FloatLimits.max} :
                            \A o \in xs \cup {FloatLimits.max} : x <= o},
              min_y \in {y \in ys \cup {FloatLimits.max} :
                            \A o \in ys \cup {FloatLimits.max} : y <= o},
              max_x \in {x \in xs \cup {FloatLimits.min} :
                            \A o \in xs \cup {FloatLimits.min} : x >= o},
              max_y \in {y \in ys \cup {FloatLimits.min} :
                            \A o \in ys \cup {FloatLimits.min} : y >= o}})
        : xs \in {{TransformPoint(transform, polygon.vertices[i]).x : i \in 1..polygon.count}},
          ys \in {{TransformPoint(transform, polygon.vertices[i]).y : i \in 1..polygon.count}}})

AABBIntersection(this, other) ==
    [lower |-> Vec(Max(this.lower.x, other.lower.x), Max(this.lower.y, other.lower.y)),
     upper |-> Vec(-Max(-this.upper.x, -other.upper.x),
                   -Max(-this.upper.y, -other.upper.y))]

\* AABB::combination_max(other), "Union: take minimum of lower bounds, maximum
\* of upper bounds"
AABB_combination_max(this, other) ==
    [lower |-> Vec(-Max(-this.lower.x, -other.lower.x),
                   -Max(-this.lower.y, -other.lower.y)),
     upper |-> Vec(Max(this.upper.x, other.upper.x), Max(this.upper.y, other.upper.y))]

\* AABB::enlarge(other): the box afterwards, and what is returned
AABB_enlarge(this, other) ==
    Local({
        IF this.lower = new_one.lower /\ this.upper = new_one.upper
        THEN [box |-> this, changed |-> FALSE]
        ELSE [box |-> new_one, changed |-> TRUE]
        : new_one \in {AABB_combination_max(this, other)}})

\* ------------------------------------------------------------- the inputs
\* ShapeProxy of a circle, of Polygon::make_box, of a segment
Circle(r) == Proxy(<<Vec2_zero>>, r)
Box(hx, hy) == Proxy(<<Vec(-hx, -hy), Vec(hx, -hy), Vec(hx, hy), Vec(-hx, hy)>>, 0)
Segment(hx, r) == Proxy(<<Vec(-hx, 0), Vec(hx, 0)>>, r)

\* a transform of rotation 0, 90 or 45 degrees
At(x, y) == Xf(Vec(x, y), Rot(One, 0))
At90(x, y) == Xf(Vec(x, y), Rot(0, One))
At45(x, y) == Xf(Vec(x, y), RotNormalize(Rot(One, One)))

\* a sweep of a body that keeps its rotation q
Linear(x1, y1, x2, y2, q) == MkSweep(Vec2_zero, Vec(x1, y1), Vec(x2, y2), q, q)

DistanceInputs ==
    {DInput(Circle(8), Circle(8), At(0, 0), At(32, 0), TRUE),
     DInput(Circle(8), Circle(8), At(0, 0), At(12, 0), TRUE),
     DInput(Box(8, 4), Box(8, 4), At(0, 0), At(24, 0), FALSE),
     DInput(Box(8, 8), Box(8, 8), At(0, 0), At45(4, 4), FALSE),
     DInput(Box(8, 8), Box(8, 8), At(0, 0), At(16, 0), FALSE),
     DInput(Box(8, 8), Box(8, 8), At(10, 0), At90(30, 20), FALSE),
     DInput(Box(8, 8), Box(4, 4), At(1, 0), At90(0, 0), FALSE),
     DInput(Box(8, 4), Segment(8, 2), At(0, 0), At45(20, 14), TRUE),
     DInput(Segment(8, 0), Box(6, 6), At(0, 0), At(3, 20), FALSE),
     DInput(Box(8, 8), Circle(4), At(-4, 2), At(20, 17), TRUE)}

\* circles meeting head on, leaving, resting; a box meeting a box, turning or
\* not; a point of a turned body meeting a tall box that stands off the origin
TOIInputs ==
    {TOIInput(Circle(12), Circle(12), Linear(0, 0, 0, 0, Rot(One, 0)),
              Linear(x1, 0, x2, 0, Rot(One, 0)), mf) :
        x1 \in {0, 12, 20, 40}, x2 \in {-40, 0, 16, 40, 48},
        mf \in {TimeOne, TimeOne \div 2}}
    \cup
    {TOIInput(Box(8, 8), Box(8, 8), Linear(0, 0, 0, 0, Rot(One, 0)),
              MkSweep(Vec2_zero, Vec(40, 0), Vec(x2, 0), Rot(One, 0), q2), TimeOne) :
        x2 \in {-40, 10}, q2 \in {Rot(One, 0), Rot(0, One)}}
    \cup
    {TOIInput(Box(8, 40), Circle(0), Linear(-20, 0, -20, 0, Rot(One, 0)),
              Linear(40, 0, -20, 0, Rot(0, One)), TimeOne)}

\* circles apart, near, overlapping, concentric, with B closing in, leaving or
\* at rest; boxes with A off the origin and B turned or not
CastInputs ==
    {[proxy_a |-> Circle(12), proxy_b |-> Circle(12), transform_a |-> At(0, 0),
      transform_b |-> At(x, 0), translation_b |-> Vec(dx, 0),
      max_fraction |-> mf, can_encroach |-> ce] :
        x \in {40, 19, 17, 12, 0}, dx \in {-400, -48, -10, 8, 0},
        ce \in BOOLEAN, mf \in {TimeOne, TimeOne \div 2}}
    \cup
    {[proxy_a |-> Box(8, 8), proxy_b |-> Box(8, 8), transform_a |-> At(20, 0),
      transform_b |-> xb, translation_b |-> d,
      max_fraction |-> TimeOne, can_encroach |-> FALSE] :
        xb \in {At90(20, 10), At45(60, 0), At(60, 14)},
        d \in {Vec(0, 0), Vec(-40, 0), Vec(-40, 3), Vec(-40, -30), Vec(0, 30)}}

\* the values the uninitialised save_a[] and save_b[] of Distance::compute
\* can hold: what an earlier call left on the stack, a pair of vertex
\* indices, or a pair that matches no vertex.  Slot 0 is written before it
\* is read; the two other slots hold the same pair here.
Garbage(proxy_a, proxy_b) ==
    {[a |-> <<0, g[1], g[1]>>, b |-> <<0, g[2], g[2]>>] :
        g \in ((0..(proxy_a.count - 1)) \X (0..(proxy_b.count - 1)))
              \cup {<<invalid_index, invalid_index>>}}

\* point lists for Hull::create: the points of the repository's test
\* (1 m = Metre steps), with and without a ninth point; every list of three or
\* four different points out of six, three of them on a line; points closer
\* together than the weld tolerance; points on a line; too few points
HullInputs ==
    LET test == <<Vec(0, 0), Vec(Metre, 0), Vec(0, Metre),
                  Vec(Metre \div 2, Metre \div 2), Vec(-Metre, 0), Vec(0, -Metre),
                  Vec(Metre \div 10, Metre \div 10),
                  Vec(Metre \div 10, Metre \div 10)>>
        six == {Vec(0, 0), Vec(200, 0), Vec(200, 200), Vec(0, 200),
                Vec(100, 100), Vec(60, 140)}
    IN  {[points |-> p] :
            p \in {test, Append(test, Vec(Metre \div 2, -Metre \div 2)),
                   <<>>, <<Vec(0, 0), Vec(200, 0)>>,
                   <<Vec(0, 0), Vec(10, 0), Vec(0, 10)>>,
                   <<Vec(0, 0), Vec(20, 8), Vec(6, 22), Vec(-4, -4)>>,
                   <<Vec(0, 0), Vec(300, 150), Vec(100, 50), Vec(200, 100)>>}
                \cup {q \in [1..3 -> six] \cup [1..4 -> six] :
                         \A i, j \in DOMAIN q : i # j => q[i] # q[j]}}

\* -------------------------------------------------------- RayCast::test
\* what a ray cast returns, with the place it returned from; a miss is
\* std::nullopt
Ray(exit, hit, normal, point, fraction) ==
    [exit |-> exit, out |-> CastOut(hit, normal, point, fraction)]

RayMiss(exit) == Ray(exit, FALSE, Vec2_zero, Vec2_zero, 0)

make_initial_overlap(input) == Ray("overlap", TRUE, Vec2_zero, input.origin, 0)

\* RayCast::test(input, circle)
RayCircle(input, center, radius) ==
    Local({
        IF length = 0
        THEN \* "Check if origin is inside circle"
             IF Dot(s, s) < radius * radius THEN make_initial_overlap(input)
             ELSE RayMiss("range")
        ELSE Local({
            \* c: the closest point on the infinite ray to the circle centre
            Local({
                IF Dot(c, c) > radius * radius THEN RayMiss("outside")
                ELSE Local({
                    Local({
                        IF fraction < 0 \/ fraction > input.max_fraction
                        THEN \* "Check for initial overlap"
                             IF Dot(s, s) < radius * radius
                             THEN make_initial_overlap(input)
                             ELSE RayMiss("range")
                        ELSE Local({
                            Ray("hit", TRUE, normal,
                                multiply_add(center, radius, normal), fraction)
                            : normal \in {Normalize(multiply_add(s, distance, d))}})
                        : fraction \in {FDiv(distance * TimeOne, length)}})
                    : distance \in {t - Sqrt(radius * radius - Dot(c, c))}})
                : c \in {multiply_add(s, t, d)}})
            : t \in {-RoundDiv(Dot(s, d), One)}})
        : s \in {VSub(input.origin, center)},
          d \in {Normalize(input.translation)},
          length \in {Length(input.translation)}})

\* RayCast::test(input, capsule).  den is scaled by One * One; qp is the part
\* of q perpendicular to the capsule axis; s21 and s22 are "Cramer's rule" in
\* steps; near is <<s2, b, n>> of the nearer of the two side lines.
RayCapsule(input, v1, v2, r) ==
    Local({
        IF capsule_length = 0 THEN RayCircle(input, v1, r)
        ELSE Local({
            Local({
                IF Dot(qp, qp) < r * r
                THEN IF qa < 0 THEN RayCircle(input, v1, r)
                     ELSE IF qa > capsule_length THEN RayCircle(input, v2, r)
                     ELSE make_initial_overlap(input)
                ELSE Local({
                    Local({
                        IF den = 0 THEN RayMiss("parallel")
                        ELSE Local({
                            Local({
                                IF \/ near[1] < 0
                                   \/ near[1] > TMul(input.max_fraction, ray_length)
                                THEN RayMiss("range")
                                ELSE Local({
                                    IF s1 < 0 THEN RayCircle(input, v1, r)
                                    ELSE IF s1 > capsule_length
                                    THEN RayCircle(input, v2, r)
                                    ELSE \* "ray hits capsule side"
                                         Ray("side", TRUE, near[3],
                                             multiply_add(
                                                 VAdd(v1, Vec(RoundDiv(s1 * (v2.x - v1.x),
                                                                       capsule_length),
                                                              RoundDiv(s1 * (v2.y - v1.y),
                                                                       capsule_length))),
                                                 r, near[3]),
                                             FDiv(near[1] * TimeOne, ray_length))
                                    : s1 \in {FDiv(Cross(near[2], VNeg(u)) * One, den)}})
                                : near \in {IF s21 < s22 THEN <<s21, b1, n>>
                                            ELSE <<s22, b2, VNeg(n)>> :
                                            s21 \in {FDiv(Cross(a, b1) * One, den)},
                                            s22 \in {FDiv(Cross(a, b2) * One, den)}}})
                            : b1 \in {multiply_sub(q, r, n)},
                              b2 \in {multiply_add(q, r, n)}})
                        : den \in {Cross(a, VNeg(u))}})
                    : n \in {Vec(a.y, -a.x)},
                      u \in {Normalize(input.translation)},
                      ray_length \in {Length(input.translation)}})
                : qp \in {multiply_add(q, -qa, a)}})
            : qa \in {RoundDiv(Dot(q, a), One)}})
        : a \in {Normalize(VSub(v2, v1))},
          capsule_length \in {Length(VSub(v2, v1))},
          q \in {VSub(input.origin, v1)}})

\* RayCast::test(input, polygon) for a polygon of radius 0: the loop over the
\* edges from edge_index on, and what follows it.  index is -1 until an edge
\* has raised lower.
RECURSIVE RayPolygonEdges(_, _, _, _, _, _)
RayPolygonEdges(input, polygon, edge_index, lower, upper, index) ==
    LET Narrowed(next_lower, next_upper, next_index) ==
            IF next_upper < next_lower THEN RayMiss("range")
            ELSE RayPolygonEdges(input, polygon, edge_index + 1,
                                 next_lower, next_upper, next_index)
        Edge(numerator, denominator) ==
            IF denominator = 0
            THEN IF numerator < 0 THEN RayMiss("parallel")
                 ELSE Narrowed(lower, upper, index)
            ELSE IF denominator < 0 /\ numerator * TimeOne < lower * denominator
            THEN Narrowed(FDiv(numerator * TimeOne, denominator), upper, edge_index)
            ELSE IF denominator > 0 /\ numerator * TimeOne < upper * denominator
            THEN Narrowed(lower, FDiv(numerator * TimeOne, denominator), index)
            ELSE Narrowed(lower, upper, index)
        \* all math is shifted to the first vertex
        Shifted(p1, vertex, edge_normal) ==
            Edge(Dot(edge_normal, VSub(vertex, p1)),
                 Dot(edge_normal, input.translation))
    IN  IF edge_index = polygon.count
        THEN IF index = -1 THEN make_initial_overlap(input)
             ELSE Ray("hit", TRUE, polygon.normals[index + 1],
                      VAdd(input.origin, Vec(TMul(lower, input.translation.x),
                                             TMul(lower, input.translation.y))),
                      lower)
        ELSE Shifted(VSub(input.origin, polygon.vertices[1]),
                     VSub(polygon.vertices[edge_index + 1], polygon.vertices[1]),
                     polygon.normals[edge_index + 1])

\* RayCast::test(input, polygon) for a polygon with a radius: the input it
\* hands to ShapeCast::test
RayPairInput(input) ==
    [proxy_a |-> Proxy(input.vertices, input.radius),
     proxy_b |-> Proxy(<<input.origin>>, 0),
     transform_a |-> At(0, 0), transform_b |-> At(0, 0),
     translation_b |-> input.translation,
     max_fraction |-> input.max_fraction, can_encroach |-> FALSE]

SegmentHasNoLeft(input, point1, point2) == FALSE

\* RayCast::test(input, segment, one_sided), "Skip left-side collision"
LeftOfSegment(input, point1, point2) ==
    Cross(VSub(input.origin, point1), VSub(point2, point1)) < 0

\* RayCast::test(input, segment, one_sided)
RaySegment(input, v1, v2, one_sided) ==
    LET Hit(normal, numerator, p, t) ==
            Ray("hit", TRUE, IF numerator > 0 THEN VNeg(normal) ELSE normal, p, t)
        \* s: the position of p along the segment
        Along(length, normal, numerator, p, t, s) ==
            IF s < 0 \/ s > length THEN RayMiss("outside")
            ELSE Hit(normal, numerator, p, t)
        Point(length, e_normalized, normal, numerator, p, t) ==
            Along(length, normal, numerator, p, t,
                  RoundDiv(Dot(VSub(p, v1), e_normalized), One))
        Cut(length, e_normalized, normal, numerator, t) ==
            IF t < 0 \/ t > input.max_fraction THEN RayMiss("range")
            ELSE Point(length, e_normalized, normal, numerator,
                       VAdd(input.origin, Vec(TMul(t, input.translation.x),
                                              TMul(t, input.translation.y))),
                       t)
        Plane(length, e_normalized, normal, numerator, denominator) ==
            IF denominator = 0 THEN RayMiss("parallel")
            ELSE Cut(length, e_normalized, normal, numerator,
                     FDiv(numerator * TimeOne, denominator))
        \* "Normal points to the right, looking from v1 towards v2"
        Edge(length, e_normalized, normal) ==
            IF length = 0 THEN RayMiss("degenerate")
            ELSE Plane(length, e_normalized, normal,
                       Dot(normal, VSub(v1, input.origin)),
                       Dot(normal, input.translation))
        Frame(length, e_normalized) ==
            Edge(length, e_normalized, CrossVS(e_normalized, 1))
    IN  IF one_sided /\ LeftOfSegment(input, v1, v2) THEN RayMiss("left")
        ELSE Frame(Length(VSub(v2, v1)), Normalize(VSub(v2, v1)))

\* the overload of RayCast::test that the shape of the input selects
RayCast_test(input) ==
    CASE input.shape = "circle" -> RayCircle(input, input.center, input.radius)
      [] input.shape = "capsule" ->
            RayCapsule(input, input.center1, input.center2, input.radius)
      [] input.shape = "polygon" ->
            RayPolygonEdges(input, input, 0, 0, input.max_fraction, -1)
      [] input.shape = "segment" ->
            RaySegment(input, input.point1, input.point2, input.one_sided)

\* rays of a few lengths and directions, cut at the whole, three quarters or
\* half of their translation, against a circle, a capsule, a box with and
\* without radius, and a segment
RayInputs ==
    LET Rays == {[origin |-> Vec(x, y), translation |-> d, max_fraction |-> mf] :
                    x \in {0, 40, 120}, y \in {-60, -58, -10, 60},
                    d \in {Vec(0, 50), Vec(0, 0), Vec(0, -120), Vec(30, 40), Vec(80, 0)},
                    mf \in {TimeOne, (TimeOne * 3) \div 4, TimeOne \div 2}}
        With(ray, shape) == [f \in DOMAIN ray \cup DOMAIN shape |->
                                IF f \in DOMAIN ray THEN ray[f] ELSE shape[f]]
        box == <<Vec(-30, -20), Vec(90, -20), Vec(90, 20), Vec(-30, 20)>>
        Shapes ==
            {[shape |-> "circle", center |-> Vec(0, 0), radius |-> 20],
             [shape |-> "capsule", center1 |-> Vec(-30, 0), center2 |-> Vec(90, 0),
              radius |-> 20],
             [shape |-> "capsule", center1 |-> Vec(0, 0), center2 |-> Vec(0, 0),
              radius |-> 20],
             [shape |-> "segment", point1 |-> Vec(-30, 0), point2 |-> Vec(90, 0),
              one_sided |-> TRUE],
             [shape |-> "segment", point1 |-> Vec(-30, 0), point2 |-> Vec(90, 0),
              one_sided |-> FALSE],
             [shape |-> "segment", point1 |-> Vec(90, 30), point2 |-> Vec(-30, -30),
              one_sided |-> TRUE]}
            \cup {[shape |-> "polygon", vertices |-> box, count |-> 4, radius |-> r,
                   normals |-> <<Vec(0, -One), Vec(One, 0), Vec(0, One), Vec(-One, 0)>>] :
                     r \in {0, 12}}
    IN  {With(ray, shape) : ray \in Rays, shape \in Shapes}

\* the inputs of Capsule::in, AABB::compute(polygon, transform),
\* AABB::enlarge(other) and ShapeProxy::find_support(direction).  Capsules of radius 0.5, 1 and 2 metres, lying, slanted
\* and degenerate; polygons on every side of the origin, turned or not; boxes
\* and points (boxes of no extent); proxies of one point and more, with directions
\* that several points maximise, and the zero direction.
ShapeInputs(entry) ==
    CASE entry = "capsule" ->
            {[capsule |-> [center1 |-> c[1], center2 |-> c[2], radius |-> r],
              point |-> Vec(x, y)] :
                c \in {<<Vec(-200, 0), Vec(200, 0)>>, <<Vec(0, 0), Vec(120, 160)>>,
                       <<Vec(0, 0), Vec(0, 0)>>},
                r \in {Metre \div 2, Metre, 2 * Metre},
                x \in {-2400, -1500, -900, 0, 200, 900, 1500},
                y \in {0, 700, 1000, 1500, 1700, 2500, 3400}}
      [] entry = "aabb" ->
            {[polygon |-> [vertices |-> p[1], count |-> Len(p[1]), radius |-> p[2]],
              transform |-> xf] :
                p \in {<<<<Vec(-800, -800), Vec(800, -800), Vec(800, 800), Vec(-800, 800)>>, 0>>,
                       <<<<Vec(-1600, -400), Vec(1600, -400), Vec(1600, 400), Vec(-1600, 400)>>, 0>>,
                       <<<<Vec(0, 0), Vec(1600, 0), Vec(0, 800)>>, 80>>},
                xf \in {At(0, 0), At(4000, 2400), At(-4000, -2400), At(-4000, 2400),
                        At(0, -4000), At90(0, 0), At90(-4000, -2400), At45(0, 0),
                        At45(-8000, 0)}}
      [] entry = "support" ->
            {[proxy |-> p, direction |-> Vec(x, y)] :
                p \in {Circle(8), Segment(8, 2), Box(8, 4), Box(8, 8),
                       Proxy(<<Vec(0, 0), Vec(16, 0), Vec(8, 8), Vec(16, 0), Vec(0, 16)>>, 0)},
                x \in {-One, -3, 0, 3, One}, y \in {-One, -3, 0, 4, One}}
      [] entry = "enlarge" ->
            {[this |-> [lower |-> Vec(a[1], a[3]), upper |-> Vec(a[2], a[4])],
              other |-> [lower |-> Vec(b[1], b[3]), upper |-> Vec(b[2], b[4])]] :
                a, b \in {q \in {<<lx, ux, ly, uy>> :
                                   lx \in {-16, 0, 8, 24}, ux \in {-16, 0, 8, 24},
                                   ly \in {0, 8}, uy \in {0, 8}} :
                             q[1] <= q[2] /\ q[3] <= q[4]}}

\* ---------------------------------------------------------- the program
VARIABLES
    api,      \* the entry point this behaviour calls: "distance", "toi", "cast",
              \* "hull", "ray", "capsule", "aabb", "enlarge", "support"
    pc,       \* where the call stands
    input,    \* the input of the call
    cache,    \* the caller's SimplexCache, the inout_cache of Distance::compute
    dst,      \* the locals of the running Distance::compute
    out,      \* what the call returned
    calls,    \* the number of calls of Distance::compute made
    history,  \* one record per returned call of Distance::compute
    toi,      \* the locals of the running TOI::compute
    cast,     \* the locals of the running ShapeCast::test
    ray       \* where RayCast::test returned from

vars == <<api, pc, input, cache, dst, out, calls, history, toi, cast, ray>>

NoOut == [none |-> TRUE]

Init ==
    /\ api \in {"distance", "toi", "cast", "hull", "ray", "capsule", "aabb", "enlarge",
                "support"}
    /\ input \in CASE api = "distance" -> DistanceInputs
                   [] api = "toi" -> TOIInputs
                   [] api = "cast" -> CastInputs
                   [] api = "hull" -> HullInputs
                   [] api = "ray" -> RayInputs
                   [] OTHER -> ShapeInputs(api)
    /\ pc = "idle"
    /\ cache = SimplexCache_zero
    /\ dst = NoOut
    /\ out = NoOut
    /\ calls = 0
    /\ history = <<>>
    /\ toi = NoOut
    /\ cast = NoOut
    /\ ray = NoOut

\* ---- Distance::compute(input, inout_cache)
\* the caller passes its cache as the last call left it, or a zero cache
DistanceCall ==
    /\ api = "distance" /\ pc = "idle" /\ calls < MaxCalls
    /\ \E c \in {cache, SimplexCache_zero} :
       \E garbage \in Garbage(input.proxy_a, input.proxy_b) :
          /\ cache' = c
          /\ dst' = DistanceEnter(input, c, garbage)
    /\ pc' = "distance"
    /\ calls' = calls + 1
    /\ UNCHANGED <<ray, api, input, out, history, toi, cast>>

DistanceStep ==
    /\ pc = "distance" /\ DistanceLooping(dst)
    /\ dst' = DistanceIteration(input, dst)
    /\ UNCHANGED <<ray, api, pc, input, cache, out, calls, history, toi, cast>>

DistanceDone ==
    /\ pc = "distance" /\ ~DistanceLooping(dst)
    /\ out' = DistanceReturn(input, dst)
    /\ cache' = DistanceCacheOut(cache, dst)
    /\ history' = Append(history, [cache_in |-> cache, out |-> out',
                                  cache_out |-> cache'])
    /\ pc' = "idle"
    /\ UNCHANGED <<ray, api, input, dst, calls, toi, cast>>

\* ---- TOI::compute(input)
\* distance_iteration < BPP_COLLISION_DISTANCE_MAX_ITERATIONS
OuterLooping(t) ==
    t.step = "outer" /\ t.distance_iteration < BPP_COLLISION_DISTANCE_MAX_ITERATIONS

\* the static case: one distance query and the return
TOIStatic ==
    /\ api = "toi" /\ pc = "idle" /\ StaticCase(input)
    /\ \E garbage \in Garbage(input.proxy_a, input.proxy_b) :
       \E call \in {Distance_compute(SweepDistanceInput(input, 0, TRUE),
                                     SimplexCache_zero, garbage)} :
          /\ out' = StaticResult(input, call.result)
          /\ toi' = [TOIEnter EXCEPT !.step = "static",
                                     !.distance = call.result.distance]
    /\ pc' = "done"
    /\ UNCHANGED <<ray, api, input, cache, dst, calls, history, cast>>

TOIStart ==
    /\ api = "toi" /\ pc = "idle" /\ ~StaticCase(input)
    /\ toi' = TOIEnter
    /\ pc' = "toi"
    /\ UNCHANGED <<ray, api, input, cache, dst, out, calls, history, cast>>

TOIOuter ==
    /\ pc = "toi" /\ OuterLooping(toi)
    /\ \E garbage \in Garbage(input.proxy_a, input.proxy_b) :
       \E r \in {OuterIteration(input, toi,
                     Distance_compute(SweepDistanceInput(input, toi.t1, FALSE),
                                      toi.cache, garbage))} :
          /\ toi' = r.toi
          /\ out' = IF r.toi.step = "push" THEN out ELSE r.out
          /\ pc' = CASE r.toi.step = "push" -> "toi"
                     [] r.toi.step = "return" -> "done"
                     [] r.toi.step = "abort" -> "aborted"
    /\ UNCHANGED <<ray, api, input, cache, dst, calls, history, cast>>

TOIPushBack ==
    /\ pc = "toi" /\ PushBackLooping(toi)
    /\ \E r \in {PushBackIteration(input, toi,
                     find_min_separation(input, toi.solver, toi.t2))} :
          /\ toi' = r.toi
          /\ out' = IF r.toi.step = "return" THEN r.out ELSE out
          /\ pc' = IF r.toi.step = "return" THEN "done" ELSE "toi"
    /\ UNCHANGED <<ray, api, input, cache, dst, calls, history, cast>>

\* after the push-back loop, left by break or by its bound
TOIAfter ==
    /\ pc = "toi"
    /\ toi.step = "after" \/ (toi.step = "push" /\ ~PushBackLooping(toi))
    /\ IF SeparatedAfterPushBack(input, toi)
       THEN /\ out' = SeparatedResult(input, toi)
            /\ pc' = "done"
            /\ toi' = [toi EXCEPT !.step = "return"]
       ELSE /\ toi' = [toi EXCEPT !.distance_iteration = @ + 1, !.step = "outer"]
            /\ UNCHANGED <<ray, out, pc>>
    /\ UNCHANGED <<ray, api, input, cache, dst, calls, history, cast>>

TOIFailed ==
    /\ pc = "toi" /\ toi.step = "outer" /\ ~OuterLooping(toi)
    /\ out' = FailedResult(toi)
    /\ toi' = [toi EXCEPT !.step = "return"]
    /\ pc' = "done"
    /\ UNCHANGED <<ray, api, input, cache, dst, calls, history, cast>>

\* ---- ShapeCast::test(input)
CastStatic ==
    /\ api = "cast" /\ pc = "idle" /\ NearZero(input.translation_b)
    /\ \E garbage \in Garbage(input.proxy_a, input.proxy_b) :
       \E call \in {Distance_compute(DInput(input.proxy_a, input.proxy_b,
                                            input.transform_a, input.transform_b,
                                            TRUE),
                                     SimplexCache_zero, garbage)} :
          /\ out' = CastStaticResult(call.result)
          /\ cast' = [CastEnter(input) EXCEPT !.returned = TRUE,
                                              !.evaluations = 1,
                                              !.distance = call.result.distance]
    /\ pc' = "done"
    /\ UNCHANGED <<ray, api, input, cache, dst, calls, history, toi>>

CastStart ==
    /\ api = "cast" /\ pc = "idle" /\ ~NearZero(input.translation_b)
    /\ cast' = CastEnter(input)
    /\ pc' = "cast"
    /\ UNCHANGED <<ray, api, input, cache, dst, out, calls, history, toi>>

CastStep ==
    /\ pc = "cast" /\ CastLooping(cast)
    /\ \E garbage \in Garbage(input.proxy_a, input.proxy_b) :
          cast' = CastIteration(input, cast,
                      Distance_compute(DInput(input.proxy_a, input.proxy_b,
                                              input.transform_a, cast.transform_b,
                                              FALSE),
                                       cast.cache, garbage))
    /\ UNCHANGED <<ray, api, pc, input, cache, dst, out, calls, history, toi>>

CastDone ==
    /\ pc = "cast" /\ ~CastLooping(cast)
    /\ out' = cast.out
    /\ pc' = "done"
    /\ UNCHANGED <<ray, api, input, cache, dst, calls, history, toi, cast>>

\* ---- Hull::create(points)
HullCreate ==
    /\ api = "hull" /\ pc = "idle"
    /\ out' = Hull_create(input.points)
    /\ pc' = "done"
    /\ UNCHANGED <<ray, api, input, cache, dst, calls, history, toi, cast>>

\* ---- RayCast::test(input, shape)
RayTest ==
    /\ api = "ray" /\ pc = "idle"
    /\ ~(input.shape = "polygon" /\ input.radius # 0)
    /\ \E r \in {RayCast_test(input)} :
          /\ out' = r.out
          /\ ray' = [exit |-> r.exit]
    /\ pc' = "done"
    /\ UNCHANGED <<api, input, cache, dst, calls, history, toi, cast>>

\* the ray cast against a polygon with a radius is the shape cast of a point:
\* ShapeCast::test runs on the pair input, and what it returns is returned
RayPolygonRounded ==
    /\ api = "ray" /\ pc = "idle"
    /\ input.shape = "polygon" /\ input.radius # 0
    /\ api' = "cast"
    /\ input' = RayPairInput(input)
    /\ ray' = [exit |-> "shape_cast"]
    /\ UNCHANGED <<pc, cache, dst, out, calls, history, toi, cast>>

\* ---- Capsule::in(point)
CapsuleIn ==
    /\ api = "capsule" /\ pc = "idle"
    /\ out' = [inside |-> Capsule_in(input.capsule, input.point)]
    /\ pc' = "done"
    /\ UNCHANGED <<ray, api, input, cache, dst, calls, history, toi, cast>>

\* ---- AABB::compute(polygon, transform)
AABBCompute ==
    /\ api = "aabb" /\ pc = "idle"
    /\ out' = AABB_compute(input.polygon, input.transform)
    /\ pc' = "done"
    /\ UNCHANGED <<ray, api, input, cache, dst, calls, history, toi, cast>>

\* ---- AABB::enlarge(other)
AABBEnlarge ==
    /\ api = "enlarge" /\ pc = "idle"
    /\ out' = AABB_enlarge(input.this, input.other)
    /\ pc' = "done"
    /\ UNCHANGED <<ray, api, input, cache, dst, calls, history, toi, cast>>

\* ---- ShapeProxy::find_support(direction)
FindSupport ==
    /\ api = "support" /\ pc = "idle"
    /\ out' = [index |-> find_support(input.proxy, input.direction)]
    /\ pc' = "done"
    /\ UNCHANGED <<ray, api, input, cache, dst, calls, history, toi, cast>>

Next ==
    \/ DistanceCall \/ DistanceStep \/ DistanceDone
    \/ TOIStatic \/ TOIStart \/ TOIOuter \/ TOIPushBack \/ TOIAfter \/ TOIFailed
    \/ CastStatic \/ CastStart \/ CastStep \/ CastDone
    \/ HullCreate
    \/ RayTest \/ RayPolygonRounded
    \/ CapsuleIn \/ AABBCompute \/ AABBEnlarge \/ FindSupport

Spec == Init /\ [][Next]_vars

\* A sequential program takes its next step as long as it has one: weak
\* fairness of Next.  Next is enabled, and changes vars, in every state but
\* those where the call has returned or aborted and no further call is made,
\* so WF_vars(Next), that is []<>~ENABLED <<Next>>_vars \/ []<><<Next>>_vars,
\* reads as follows.
FairSpec ==
    /\ Spec
    /\ \/ []<>(pc \in {"done", "aborted"} \/ (pc = "idle" /\ calls >= MaxCalls))
       \/ []<><<TRUE>>_vars

\* ------------------------------------------------------------ the claims
\* C1, as stated: after every return of Distance::compute, the overlap exits
\* included, inout_cache holds the type and the index pairs of the final
\* simplex.
C1_CacheHoldsFinalSimplex ==
    (api = "distance" /\ pc = "idle" /\ history # <<>>)
        => cache = Simplex_cache(dst.simplex)

\* C1, amended: after a return by the duplicate-support exit or by the
\* iteration bound inout_cache holds the type and the index pairs of the
\* final simplex; after a return by an overlap exit (a triangle that contains
\* the origin, a search direction near zero) inout_cache is as it was passed in.
C1_CacheAfterReturn ==
    (api = "distance" /\ pc = "idle" /\ history # <<>>)
        => cache = IF dst.exit = "overlap"
                   THEN history[Len(history)].cache_in
                   ELSE Simplex_cache(dst.simplex)

\* a call that took an overlap exit returned with a cache that is not the
\* cache of its final simplex
C1_OverlapReturn ==
    /\ api = "distance" /\ pc = "idle" /\ history # <<>>
    /\ dst.exit = "overlap"
    /\ cache # Simplex_cache(dst.simplex)

\* C2: every point p of proxy_b enters the simplex iteration as
\* transform_a^-1(transform_b(p)), for any pair of transforms.
C2_ProxyBInFrameA ==
    (api = "distance" /\ pc = "distance")
        => \A i \in 1..input.proxy_b.count :
              dst.local_proxy_b.points[i] =
                  InvTransformPoint(input.transform_a,
                                    TransformPoint(input.transform_b,
                                                   input.proxy_b.points[i]))

\* C3: every query returns, and until then Distance::compute has run at most
\* BPP_COLLISION_DISTANCE_MAX_ITERATIONS simplex iterations, ShapeCast::test
\* has made at most BPP_COLLISION_DISTANCE_MAX_ITERATIONS distance evaluations,
\* and TOI::compute has run at most BPP_COLLISION_DISTANCE_MAX_ITERATIONS outer
\* iterations, each of at most BPP_MAX_POLYGON_VERTICES push-back steps of at
\* most 50 root-finder iterations.
C3_BoundedLoops ==
    /\ [](/\ dst # NoOut =>
                dst.bodies <= BPP_COLLISION_DISTANCE_MAX_ITERATIONS
          /\ cast # NoOut =>
                cast.evaluations <= BPP_COLLISION_DISTANCE_MAX_ITERATIONS
          /\ toi # NoOut =>
                /\ toi.distance_iteration <= BPP_COLLISION_DISTANCE_MAX_ITERATIONS
                /\ toi.push_back_iteration <= BPP_MAX_POLYGON_VERTICES
                /\ toi.root_iterations <= 50)
    /\ (pc \in {"distance", "toi", "cast"}) ~> (pc \in {"idle", "done"})

\* a root search that ran its 50 iterations, in a call that returned
C3_RootSearchExhausted ==
    api = "toi" /\ pc = "done" /\ toi.root_iterations = 50

\* C4: two calls of Distance::compute with equal input and equal initial
\* cache return equal results and leave equal caches.
C4_SameCallSameResult ==
    \A i, j \in 1..Len(history) :
        history[i].cache_in = history[j].cache_in
            => /\ history[i].out = history[j].out
               /\ history[i].cache_out = history[j].cache_out

\* C5: in the moving case a distance query at t1 that reports distance <= 0
\* ends the call, with state OVERLAPPED if t1 = 0 and state HIT otherwise;
\* state OVERLAPPED is only returned with fraction 0.
C5_OverlapExit ==
    /\ (api = "toi" /\ toi # NoOut /\ toi.step \notin {"static", "outer"}
            /\ toi.distance <= 0)
          => /\ pc = "done"
             /\ out.state = IF toi.t1 = 0 THEN "OVERLAPPED" ELSE "HIT"
             /\ out.fraction = toi.t1
    /\ (api = "toi" /\ pc = "done" /\ out.state = "OVERLAPPED")
          => out.fraction = 0

\* the distance query at a time t1 > 0 reported distance <= 0
C5_OverlapAfterStart ==
    /\ api = "toi" /\ pc = "done" /\ toi.step = "return"
    /\ toi.distance <= 0 /\ toi.t1 > 0 /\ out.state = "HIT"

\* C6: with both sweeps motionless TOI::compute decides from one static
\* distance query: distance <= 0 gives OVERLAPPED with fraction 0, a positive
\* distance gives SEPARATED with fraction max_fraction.
C6_StaticCase ==
    (api = "toi" /\ pc = "done" /\ StaticCase(input))
        => /\ toi.step = "static" /\ toi.distance_iteration = 0
           /\ toi.distance <= 0 => out.state = "OVERLAPPED" /\ out.fraction = 0
           /\ toi.distance > 0 => /\ out.state = "SEPARATED"
                                  /\ out.fraction = input.max_fraction

\* a motionless pair of overlapping circles, reported OVERLAPPED
C6_StaticOverlap ==
    /\ api = "toi" /\ pc = "done" /\ StaticCase(input)
    /\ toi.distance <= 0 /\ out.state = "OVERLAPPED"

C9_FailedAfterLastIteration ==
    /\ pc # "aborted"
    /\ (api = "toi" /\ pc = "done"
            /\ toi.distance_iteration >= BPP_COLLISION_DISTANCE_MAX_ITERATIONS)
          => out.state = "FAILED" /\ out.fraction = toi.t1

\* FAILED returned at a time t1 > 0
C9_FailedReturned ==
    /\ api = "toi" /\ pc = "done" /\ out.state = "FAILED"
    /\ toi.distance_iteration = BPP_COLLISION_DISTANCE_MAX_ITERATIONS
    /\ toi.t1 > 0

\* C10: for every returned state the fraction of the result of TOI::compute
\* lies in [0, max_fraction].
C10_FractionInRange ==
    (api = "toi" /\ pc = "done")
        => /\ out.state \in {"FAILED", "OVERLAPPED", "HIT", "SEPARATED"}
           /\ 0 <= out.fraction /\ out.fraction <= input.max_fraction

\* HIT returned from the push-back search at a time strictly inside
\* (0, max_fraction), with max_fraction < 1
C10_HitInside ==
    /\ api = "toi" /\ pc = "done" /\ out.state = "HIT"
    /\ input.max_fraction < TimeOne
    /\ 0 < out.fraction /\ out.fraction < input.max_fraction

\* C11: a loop body of Distance::compute whose simplex solve leaves a
\* TRIANGLE, or returns a search direction d with d.d below epsilon squared,
\* is the last one, and the call then returns distance 0 and the zero vector
\* as normal.
C11_OverlapExitsReturnZero ==
    /\ []((api = "distance" /\ pc = "idle" /\ history # <<>>
              /\ dst.exit = "overlap")
            => out.distance = 0 /\ out.normal = Vec2_zero)
    /\ [][(pc = "distance" /\ DistanceLooping(dst)
              /\ (solve(dst.simplex).simplex.type = TRIANGLE
                     \/ NearZero(solve(dst.simplex).d)))
            => (dst'.exit = "overlap" /\ ~DistanceLooping(dst')
                   /\ dst'.bodies = dst.bodies + 1)]_vars

\* a call that found the origin inside a triangle after more than one loop
\* body, returned
C11_TriangleReturn ==
    /\ api = "distance" /\ pc = "idle" /\ history # <<>>
    /\ dst.exit = "overlap" /\ dst.simplex.type = TRIANGLE /\ dst.bodies > 1
    /\ out.distance = 0

\* C12: in ShapeCast::test, an iteration that has not reached the target
\* separation and finds the closing speed translation_b . normal non-negative
\* ends the cast, and the cast returns a miss.
C12_SeparatingMisses ==
    (/\ api = "cast" /\ cast # NoOut /\ cast.evaluations > 0
     /\ ~NearZero(input.translation_b)
     /\ cast.distance >= cast.target + tolerance
     /\ cast.approach_speed >= 0)
        => /\ cast.returned /\ ~cast.out.hit
           /\ pc = "done" => ~out.hit

\* a cast that returned a miss from an iteration in which the shapes, not
\* yet at the target separation, moved parallel to each other
C12_ParallelMiss ==
    /\ api = "cast" /\ pc = "done" /\ ~NearZero(input.translation_b)
    /\ cast.distance >= cast.target + tolerance
    /\ cast.approach_speed = 0 /\ ~out.hit

\* C13: a hit returned by ShapeCast::test has 0 <= fraction <= max_fraction,
\* and a sweep advanced to max_fraction or beyond ends the cast with a miss.
C13_CastFractionInRange ==
    /\ (api = "cast" /\ pc = "done" /\ out.hit)
          => 0 <= out.fraction /\ out.fraction <= input.max_fraction
    /\ (api = "cast" /\ cast # NoOut /\ cast.fraction >= input.max_fraction)
          => /\ cast.returned /\ ~cast.out.hit
             /\ pc = "done" => ~out.hit

\* a miss of a cast cut at max_fraction < 1, where the contact lies before
\* the end of the translation
C13_CutAtMaxFraction ==
    /\ api = "cast" /\ pc = "done" /\ ~out.hit
    /\ input.max_fraction < TimeOne
    /\ cast.fraction >= input.max_fraction /\ cast.fraction < TimeOne

\* C14: ShapeCast::test returns a present result only from an iteration in
\* which the computed distance was below the target separation plus
\* tolerance; every other return, the one after all
\* BPP_COLLISION_DISTANCE_MAX_ITERATIONS iterations included, is the absent
\* result.
C14_MissIsAbsent ==
    (api = "cast" /\ pc = "done")
        => /\ out.hit => cast.distance < cast.target + tolerance
           /\ ~out.hit => out = CastOut(FALSE, Vec2_zero, Vec2_zero, 0)
           /\ cast.iteration >= BPP_COLLISION_DISTANCE_MAX_ITERATIONS => ~out.hit

\* a cast that used all its iterations without reaching the target
\* separation, returned
C14_CastExhausted ==
    /\ api = "cast" /\ pc = "done" /\ ~out.hit
    /\ cast.iteration = BPP_COLLISION_DISTANCE_MAX_ITERATIONS
    /\ cast.evaluations = BPP_COLLISION_DISTANCE_MAX_ITERATIONS
    /\ cast.distance >= cast.target + tolerance

\* C15: when the first iteration of ShapeCast::test finds the shapes within
\* the target separation and the target is not tightened (can_encroach is
\* false, or the shapes are no farther apart than twice the linear slop), the
\* cast returns a hit with fraction 0 and a zero normal; the target is
\* tightened on the first iteration only, and only when can_encroach is set.
C15_InitialHit ==
    /\ []((/\ api = "cast" /\ cast # NoOut /\ ~NearZero(input.translation_b)
           /\ cast.evaluations = 1
           /\ cast.distance < target(input) + tolerance
           /\ (~input.can_encroach \/ cast.distance <= BPP_LINEAR_SLOP * 2))
            => /\ cast.returned /\ cast.target = target(input)
               /\ cast.out.hit /\ cast.out.fraction = 0
               /\ cast.out.normal = Vec2_zero
               /\ pc = "done" => out = cast.out)
    /\ [][(pc = "cast" /\ cast'.target # cast.target)
            => /\ cast.iteration = 0 /\ input.can_encroach
               /\ cast'.target = cast'.distance - BPP_LINEAR_SLOP
               /\ cast'.target < cast.target]_vars

\* a cast that may encroach and started with the shapes apart, but no farther
\* than twice the linear slop, returned its initial hit
C15_CloseStartHit ==
    /\ api = "cast" /\ pc = "done" /\ ~NearZero(input.translation_b)
    /\ input.can_encroach /\ cast.evaluations = 1
    /\ cast.distance > 0 /\ cast.distance <= BPP_LINEAR_SLOP * 2
    /\ out.hit /\ out.fraction = 0 /\ out.normal = Vec2_zero

\* C16: with a zero translation ShapeCast::test returns a hit with fraction 0
\* and zero normal exactly when the two shapes, radii included, overlap, and a
\* miss for every pair of shapes that do not overlap.  Whether the shapes
\* overlap is decided on their points brought to world space, with identity
\* transforms and no stale support pair in play.
C16_StaticOverlap ==
    (api = "cast" /\ pc = "done" /\ NearZero(input.translation_b))
        => LET World(proxy, xf) ==
                   Proxy([i \in 1..proxy.count |-> TransformPoint(xf, proxy.points[i])],
                         proxy.radius)
               apart ==
                   Distance_compute(
                       DInput(World(input.proxy_a, input.transform_a),
                              World(input.proxy_b, input.transform_b),
                              At(0, 0), At(0, 0), TRUE),
                       SimplexCache_zero,
                       [a |-> <<0, invalid_index, invalid_index>>,
                        b |-> <<0, invalid_index, invalid_index>>]).result.distance
           IN  IF apart <= 0
               THEN out.hit /\ out.fraction = 0 /\ out.normal = Vec2_zero
               ELSE ~out.hit

\* C17: for every input of 3 to BPP_MAX_POLYGON_VERTICES points that are
\* pairwise farther apart than the weld tolerance and not all on a line (some
\* point is at least four times the linear slop off the line through two
\* others), Hull::create returns a non-empty hull for which Hull::valid() is
\* true.
C17_HullOfSeparatedPoints ==
    (api = "hull" /\ pc = "done")
        => LET p == input.points
               n == Len(p)
               apart == \A i, j \in 1..n :
                            i # j => DistanceSquared(p[i], p[j])
                                        > BPP_LINEAR_SLOP * BPP_LINEAR_SLOP * 16
               Off(i, j, k) ==
                   Abs(Cross(VSub(p[j], p[i]), VSub(p[k], p[i])))
                       >= 4 * BPP_LINEAR_SLOP
                              * (Abs(p[j].x - p[i].x) + Abs(p[j].y - p[i].y))
               spread == \E i, j, k \in 1..n : i # j /\ Off(i, j, k)
           IN  (n >= 3 /\ n <= BPP_MAX_POLYGON_VERTICES /\ apart /\ spread)
                   => out.count > 0 /\ Hull_valid(out)

\* C18: for every degenerate input (fewer than 3 points, more than
\* BPP_MAX_POLYGON_VERTICES points, all points within the weld tolerance of
\* each other, all points on one line) Hull::create returns, and what it
\* returns is the empty hull, count == 0.
C18_DegenerateGivesEmpty ==
    (api = "hull" /\ pc = "done")
        => LET p == input.points
               n == Len(p)
               close == \A i, j \in 1..n :
                            DistanceSquared(p[i], p[j])
                                < BPP_LINEAR_SLOP * BPP_LINEAR_SLOP * 16
               collinear == \A i, j, k \in 1..n :
                                Cross(VSub(p[j], p[i]), VSub(p[k], p[i])) = 0
           IN  (n < 3 \/ n > BPP_MAX_POLYGON_VERTICES \/ close \/ collinear)
                   => out = Hull(<<>>) /\ out.count = 0

\* Hull::create returned the empty hull for four points on one line, each
\* farther from the others than the weld tolerance
C18_LineGivesEmpty ==
    /\ api = "hull" /\ pc = "done" /\ out.count = 0
    /\ Len(input.points) = 4
    /\ \A i, j \in 1..4 :
          i # j => DistanceSquared(input.points[i], input.points[j])
                      > BPP_LINEAR_SLOP * BPP_LINEAR_SLOP * 16
    /\ \A i, j, k \in 1..4 :
          Cross(VSub(input.points[j], input.points[i]),
                VSub(input.points[k], input.points[i])) = 0

\* C19: a one-sided RayCast::test against a segment returns a miss whenever
\* the ray origin lies left of the line from point1 to point2, and returns it
\* from the one-sided check, before the intersection is computed.
C19_LeftOriginMisses ==
    (/\ api = "ray" /\ pc = "done" /\ input.shape = "segment" /\ input.one_sided
     /\ Cross(VSub(input.point2, input.point1),
              VSub(input.origin, input.point1)) > 0)
        => ~out.hit /\ ray.exit = "left"

\* a one-sided cast from the left that returned a miss, of a ray that hits
\* the segment when the cast is two-sided
C19_LeftRayCrosses ==
    /\ api = "ray" /\ pc = "done" /\ input.shape = "segment" /\ input.one_sided
    /\ ray.exit = "left" /\ ~out.hit
    /\ RaySegment(input, input.point1, input.point2, FALSE).out.hit

\* C20: every hit that RayCast::test returns against a circle, a capsule, a
\* polygon or a segment has 0 <= fraction <= max_fraction.
C20_RayFractionInRange ==
    (ray # NoOut /\ pc = "done" /\ out.hit)
        => 0 <= out.fraction /\ out.fraction <= input.max_fraction

\* C21: Capsule::in(point) returns true exactly when the point is inside or
\* on the boundary of the capsule, that is when the distance from the point to
\* the segment center1-center2 is at most radius, for every radius.  (The
\* distance to the inner part of the segment is |w x d| / |d|; the capsules of
\* the inputs have a whole |d|.)
C21_InExactlyWithinRadius ==
    (api = "capsule" /\ pc = "done")
        => LET c == input.capsule
               d == VSub(c.center2, c.center1)
               w == VSub(input.point, c.center1)
               within ==
                   IF Dot(w, d) <= 0 THEN Dot(w, w) <= c.radius * c.radius
                   ELSE IF Dot(w, d) >= Dot(d, d)
                   THEN DistanceSquared(input.point, c.center2) <= c.radius * c.radius
                   ELSE Abs(Cross(w, d)) <= c.radius * Length(d)
           IN  out.inside <=> within

\* C22: AABB::compute(polygon, transform) returns the exact bounding box of
\* the transformed polygon: lower is the component-wise minimum and upper the
\* component-wise maximum over all transformed vertices, each expanded by the
\* polygon radius, wherever the polygon lies in the plane.
C22_ExactBoundingBox ==
    (api = "aabb" /\ pc = "done")
        => LET p == input.polygon
               v == [i \in 1..p.count |-> TransformPoint(input.transform, p.vertices[i])]
           IN  /\ \A i \in 1..p.count :
                     /\ out.lower.x + p.radius <= v[i].x /\ out.lower.y + p.radius <= v[i].y
                     /\ out.upper.x - p.radius >= v[i].x /\ out.upper.y - p.radius >= v[i].y
               /\ \E i \in 1..p.count : out.lower.x + p.radius = v[i].x
               /\ \E i \in 1..p.count : out.lower.y + p.radius = v[i].y
               /\ \E i \in 1..p.count : out.upper.x - p.radius = v[i].x
               /\ \E i \in 1..p.count : out.upper.y - p.radius = v[i].y

\* C23: AABB::enlarge(other) replaces the box by the union of itself and
\* other and returns true exactly when this changed the box; when the box
\* already contains other it is left unchanged and false is returned; in both
\* cases the box contains other afterwards.
C23_EnlargeIsUnion ==
    (api = "enlarge" /\ pc = "done")
        => LET a == input.this
               b == input.other
               Least(x, y) == IF x < y THEN x ELSE y
               Contains(box, o) ==
                   /\ box.lower.x <= o.lower.x /\ box.lower.y <= o.lower.y
                   /\ box.upper.x >= o.upper.x /\ box.upper.y >= o.upper.y
           IN  /\ out.box.lower = Vec(Least(a.lower.x, b.lower.x), Least(a.lower.y, b.lower.y))
               /\ out.box.upper = Vec(Max(a.upper.x, b.upper.x), Max(a.upper.y, b.upper.y))
               /\ out.changed <=> out.box # a
               /\ Contains(a, b) => (out.box = a /\ ~out.changed)
               /\ Contains(out.box, b)

\* C23, its case: a call that has grown the box to a box that is neither of
\* the two
C23_EnlargedBox ==
    /\ api = "enlarge" /\ pc = "done"
    /\ out.changed
    /\ out.box # input.this /\ out.box # input.other

\* C24: ShapeProxy::find_support(direction) returns the lowest index among
\* the points of the proxy that maximise the dot product with direction; it
\* returns 0 for a proxy with a single point and 0 when the direction is near
\* zero.
C24_LowestSupport ==
    (api = "support" /\ pc = "done")
        => LET p == input.proxy
               Value(i) == Dot(PointAt(p, i), input.direction)
           IN  /\ out.index \in 0..(p.count - 1)
               /\ \A j \in 0..(p.count - 1) : Value(j) <= Value(out.index)
               /\ \A j \in 0..(out.index - 1) : Value(j) < Value(out.index)
               /\ p.count = 1 => out.index = 0
               /\ NearZero(input.direction) => out.index = 0

\* C24, its case: the index returned is not 0 and a later point has the same
\* dot product
C24_TiedSupport ==
    /\ api = "support" /\ pc = "done"
    /\ out.index > 0
    /\ \E j \in (out.index + 1)..(input.proxy.count - 1) :
          Dot(PointAt(input.proxy, j), input.direction)
              = Dot(PointAt(input.proxy, out.index), input.direction)

\* C25: in Distance::compute, when the support index pair (index_a, index_b)
\* computed in an iteration equals the index pair of a vertex that is in the
\* simplex, the loop stops in that iteration and the duplicate vertex is not
\* added to the simplex: the simplex keeps the type that solve() left.
C25_DuplicateStops ==
    [][(/\ DistanceStep
        /\ dst'.exit # "overlap"
        /\ \E i \in 1..dst.simplex.type :
              /\ dst.simplex.vertices[i].index_a = dst'.support[1]
              /\ dst.simplex.vertices[i].index_b = dst'.support[2])
           => /\ dst'.exit = "duplicate"
              /\ ~DistanceLooping(dst')
              /\ dst'.simplex.type = solve(dst.simplex).simplex.type
              /\ dst'.simplex.type <= dst.simplex.type]_vars

\* C25, its case: the loop has stopped on a support pair that one of the
\* vertices saved from the simplex has
C25_StoppedOnDuplicate ==
    /\ api = "distance" /\ pc = "distance"
    /\ dst.exit = "duplicate"
    /\ \E i \in 1..dst.save_count :
          dst.save_a[i] = dst.support[1] /\ dst.save_b[i] = dst.support[2]

\* C26: when the push-back loop of TOI::compute finds the separation at the
\* candidate time t2 within tolerance of the target, t2 is accepted as the hit
\* time: the result of the call is state HIT with fraction t2.  (The loop has
\* set found_hit and moved t1 to t2; from then on the call keeps that time
\* until it returns, and it returns HIT with it.)
C26_AcceptedTimeIsHit ==
    [][(api = "toi" /\ pc = "toi" /\ toi.found_hit)
          => \/ /\ pc' = "toi" /\ toi'.found_hit /\ toi'.t1 = toi.t1
             \/ /\ pc' = "done" /\ out'.state = "HIT" /\ out'.fraction = toi.t1]_vars

\* C27: the duplicate check of Distance::compute compares the new support
\* index pair only with the index pairs of the vertices that were in the
\* simplex at the start of the current iteration; entries of the save arrays
\* beyond that simplex's size cannot cause the loop to stop.
C27_DuplicateOnlyOfSimplex ==
    (dst # NoOut /\ dst.exit = "duplicate")
        => \E i \in 1..dst.save_count :
              dst.save_a[i] = dst.support[1] /\ dst.save_b[i] = dst.support[2]

\* C28: every outer iteration of TOI::compute that does not return strictly
\* increases the current time t1: when the push-back loop is left, by a break
\* that is not followed by a return or by its iteration bound, t1 is greater
\* than the time at which this iteration evaluated the distance.
C28_OuterIterationAdvances ==
    [][(pc = "toi" /\ toi.step = "push"
          /\ \/ toi'.step = "outer"
             \/ toi'.step = "after" /\ ~SeparatedAfterPushBack(input, toi'))
         => toi'.t1 > toi.t1]_vars

\* C29: warm-starting does not change the answer: for an unchanged input, the
\* call of Distance::compute started from the cache the previous call left
\* returns the same distance and normal as the call started from
\* SimplexCache::zero.
C29_WarmStartSameAnswer ==
    (api = "distance" /\ Len(history) = 2
        /\ history[1].cache_in = SimplexCache_zero
        /\ history[2].cache_in = history[1].cache_out)
        => /\ history[2].out.distance = history[1].out.distance
           /\ history[2].out.normal = history[1].out.normal

\* C30: whenever TOI::compute constructs a SeparationSolver, no assertion of
\* the constructor fails: the cache handed to it has type POINT or
\* LINE_SEGMENT, and it holds the index pairs of the distance query just made
\* at the current time t1: indices of vertices of the two proxies whose
\* simplex, at the transforms of t1, is at the distance that query returned.
C30_SolverCacheOfQuery ==
    (api = "toi" /\ toi # NoOut) =>
        /\ toi.step # "abort"
        /\ toi.step = "push" =>
              /\ toi.cache.type \in {POINT, LINE_SEGMENT}
              /\ \A i \in 1..toi.cache.type :
                    /\ toi.cache.index_a[i] \in 0..(input.proxy_a.count - 1)
                    /\ toi.cache.index_b[i] \in 0..(input.proxy_b.count - 1)
              /\ \E d \in {SweepDistanceInput(input, toi.t1, FALSE)} :
                 \E cp \in {compute_closest_points(
                               solve(Simplex_create(toi.cache, d.proxy_a,
                                                    LocalProxyB(d))).simplex)} :
                    Length(VSub(cp[2], cp[1])) = toi.distance

\* a solver built in a later outer iteration from a two-vertex cache
C30_SolverFromSegmentCache ==
    /\ api = "toi" /\ toi # NoOut /\ toi.step = "push"
    /\ toi.t1 > 0 /\ toi.cache.type = LINE_SEGMENT

=============================================================================
